---- MODULE Spec2Model ----
(***************************************************************************)
(* easyLog: rendering, multi-sink dispatch and asynchronous delivery.      *)
(* The model follows src/libBuild/EasyLog.cpp (src/Easylog.hpp is the      *)
(* header-only copy of the same code).                                     *)
(*                                                                         *)
(* A rendered line is a sequence of text tokens ending with "\n".          *)
(* Threads are integers: Worker is the std::jthread of ThreadLog, Ctl the  *)
(* thread that issues Start/Stop/Wait, 1..n the threads that log.          *)
(***************************************************************************)
EXTENDS Integers, Sequences, FiniteSets, TLC

\* ------------------------------------------------------------------ bounds
NumThreads == 2
NumRecords == 2
NumProducers == 2
MaxTasks == 2
MaxStarts == 2
MaxSetStates == 2
MaxLen == 4
MaxRanges == 2
MaxPieces == 3
MaxPrecision == 4
MaxCapacity == 1

\* ----------------------------------------------------------------- threads
Worker == 0
Ctl == -1
Callers == 1..NumThreads
Producers == 1..NumProducers
MaxOf(a, b) == IF a >= b THEN a ELSE b
Threads == {Ctl, Worker} \cup (1..MaxOf(NumThreads, NumProducers))

\* ------------------------------------------------------------ input domains
Labels == {"default", "net"}
RegLevels == {"AUDIT", "INFO"}
LevelColors == {"BOLD_RED", "GREEN"}
LoggerNames == {"audit", "net"}
Paths == {"a.txt", "b.txt"}
OpenModes == {"app", "trunc"}
NoRec == [level |-> "", label |-> "", msg |-> <<>>, colorStack |-> <<>>]

VARIABLES
    StateData,          \* State::Impl::Data : the flags and FileLoggerName
    LogLevels,          \* LogLevel::Impl::Data::LogLevels
    DefaultFileLogger,  \* FileLogImpl::Impl::Data::DefaultFileLogger
    FileLoggers,        \* FileLogImpl::Impl::Data::FileLoggers
    console,            \* what has been inserted into std::cout
    LogImpl_mtx,        \* LogImpl::Impl::Data::mtx
    LogBuffer_mtx,      \* LogBufferImpl::Impl::Data::mtx
    mLogBuffer, mFileLogBuffer, mLogBufferLabel, mFileLogBufferLabel,
    capacity,           \* State::Impl::Data::BufferSize, capacity() of each buffer
    ThreadLog_mtx,      \* ThreadLog::Impl::Data::mtx
    mLogTasks,          \* ThreadLog::Impl::Data::mLogTasks
    mIsRunning, mIsFinished,
    mThread,            \* the std::jthread: joinable, stop requested
    State_mtx,          \* State::Impl::Data::mtx
    pc, cur, out, hkey, \* per thread: position, record, rendered line, file handle
    sent,               \* per thread: number of log calls / pushes begun
    retval,             \* result of the last registration call
    pushed, dispatched, \* history: task ids in enqueue / dispatch order
    obs,                \* history: what has happened so far
    beginColor,         \* the color AsciiColors.begin() yields in this build
    fnIn, fnOut,        \* arguments and result of a function applied on its own
    nCalls,             \* history: number of SetState calls made
    jthreads            \* every std::jthread made by Start, and which one mThread owns

vars == <<StateData, LogLevels, DefaultFileLogger, FileLoggers, console,
          LogImpl_mtx, LogBuffer_mtx, mLogBuffer, mFileLogBuffer,
          mLogBufferLabel, mFileLogBufferLabel, ThreadLog_mtx, mLogTasks,
          mIsRunning, mIsFinished, mThread, State_mtx, pc, cur, out, hkey,
          sent, retval, pushed, dispatched, obs, beginColor, fnIn, fnOut,
          nCalls, capacity, jthreads>>

configVars == <<StateData, LogLevels>>
fileVars == <<DefaultFileLogger, FileLoggers>>
bufferVars == <<mLogBuffer, mFileLogBuffer, mLogBufferLabel, mFileLogBufferLabel,
                capacity>>
sinkVars == <<console, LogImpl_mtx, LogBuffer_mtx, fileVars, bufferVars>>
fnVars == <<beginColor, fnIn, fnOut>>
pureVars == <<fnVars, nCalls, jthreads>>
asyncVars == <<ThreadLog_mtx, mLogTasks, mIsRunning, mIsFinished, mThread,
               State_mtx, pushed, dispatched>>

\* ------------------------------------------------------------ small helpers
\* State::Impl::Data::BufferSize as it is initialized
DefaultBufferSize == 100
Range(s) == {s[i] : i \in 1..Len(s)}
Count(x, s) == Cardinality({i \in 1..Len(s) : s[i] = x})

\* ---------------------------------------------------------------- rendering
ColorEnum ==
    {"RESET", "BLACK", "RED", "GREEN", "YELLOW", "BLUE", "MAGENTA", "CYAN", "WHITE",
     "BOLD_BLACK", "BOLD_RED", "BOLD_GREEN", "BOLD_YELLOW", "BOLD_BLUE",
     "BOLD_MAGENTA", "BOLD_CYAN", "BOLD_WHITE"}
AsciiColors(color) == "<" \o color \o ">"
ResetColor == AsciiColors("RESET")

DefaultLogLevels ==
    [n \in {"TRACE", "DEBUG", "INFO", "WARNING", "ERROR", "FATAL"} |->
        CASE n = "TRACE" -> "BOLD_CYAN"
          [] n = "DEBUG" -> "BOLD_BLUE"
          [] n = "INFO" -> "BOLD_GREEN"
          [] n = "WARNING" -> "BOLD_YELLOW"
          [] n = "ERROR" -> "BOLD_RED"
          [] OTHER -> "BOLD_MAGENTA"]

DefaultStateData ==
    [FileLoggerName |-> "", IsFileLogEnabled |-> FALSE,
     IsConsoleLogEnabled |-> TRUE, UseDefaultFileLog |-> TRUE,
     DirectFlush |-> FALSE, BufferLogEnabled |-> FALSE, BufferLog |-> FALSE,
     BufferLogLabel |-> FALSE, BufferFileLog |-> FALSE,
     BufferFileLogLabel |-> FALSE, ThreadedLog |-> FALSE,
     UseTime |-> TRUE, UseDate |-> TRUE, UseFile |-> TRUE,
     UseFunction |-> TRUE, UseLine |-> TRUE, COLORLESS |-> FALSE]

IsBuffering_first(S) == S.BufferLog
IsBuffering(S) ==
    S.BufferLog \/ S.BufferLogLabel \/ S.BufferFileLog \/ S.BufferFileLogLabel

UseFormat(S) ==
    S.UseTime \/ S.UseDate \/ S.UseFile \/ S.UseFunction \/ S.UseLine

\* sputn("UNKNOWN", 8) in the uncolored branch also copies the terminating NUL
getLogLevelString(S, LL, logLevel, colorize) ==
    IF colorize /\ ~S.COLORLESS
    THEN IF logLevel \in DOMAIN LL
         THEN <<AsciiColors(LL[logLevel]), logLevel, ResetColor>>
         ELSE <<AsciiColors("BOLD_WHITE"), "UNKNOWN", ResetColor>>
    ELSE IF logLevel \in DOMAIN LL
         THEN <<logLevel>>
         ELSE <<"UNKNOWN", "<NUL>">>

fillBaseFormat(S) ==
    <<"[">>
    \o (IF S.UseDate THEN <<"date", " | ">> ELSE <<>>)
    \o (IF S.UseTime THEN <<"time", " | ">> ELSE <<>>)
    \o (IF S.UseFile THEN <<"file", " | ">> ELSE <<>>)
    \o (IF S.UseFunction THEN <<"function", " | ">> ELSE <<>>)
    \o (IF S.UseLine THEN <<"line">> ELSE <<>>)
    \o <<"]">>

getFmtLogInfo(S, colorize) ==
    IF UseFormat(S)
    THEN (IF colorize /\ ~S.COLORLESS THEN <<AsciiColors("BOLD_WHITE")>> ELSE <<>>)
         \o fillBaseFormat(S)
         \o (IF colorize /\ ~S.COLORLESS THEN <<ResetColor>> ELSE <<>>)
    ELSE <<>>

getLabelStringLog(label) == <<"[", label, "]">>

fillLogBuffer_labelled(S, LL, rec, file) ==
    getLogLevelString(S, LL, rec.level, ~file)
    \o <<"\t: ">>
    \o getLabelStringLog(rec.label) \o (IF UseFormat(S) THEN <<" ">> ELSE <<>>)
    \o getFmtLogInfo(S, ~file)
    \o <<" : ">> \o rec.msg \o <<"\n">>
fillLogBuffer(S, LL, rec, file) ==
    getLogLevelString(S, LL, rec.level, ~file)
    \o <<"\t: ">>
    \o (IF rec.label # "default"
        THEN getLabelStringLog(rec.label) \o (IF UseFormat(S) THEN <<" ">> ELSE <<>>)
        ELSE <<>>)
    \o getFmtLogInfo(S, ~file)
    \o <<" : ">> \o rec.msg \o <<"\n">>

\* the message text of the k-th record of thread t, one token of a message
Msg(t, k) == "m" \o ToString(t) \o "." \o ToString(k)

\* ------------------------------------------------------------ text colorizer
\* A text is a sequence of characters, positions count from 0 as in C++.
\* An escape sequence is one token; no character of a text occurs in one.
npos == -1
\* the result of a call that never returns (unbounded recursion)
Diverges == -2
NUL == "<NUL>"

isCharPunctuationMark(c) == c \in {" ", ",", ".", "!", "?", ";", ":", "\n", "\t"}

\* std::string_view::find(match, pos)
find(str, match, pos) ==
    LET hits == {p \in pos..(Len(str) - Len(match)) :
                    SubSeq(str, p + 1, p + Len(match)) = match}
    IN IF hits = {} THEN npos ELSE CHOOSE p \in hits : \A q \in hits : p <= q

\* str[i]; past is what a read at index size() yields (outside the view)
CharAt(str, i, past) == IF i < Len(str) THEN str[i + 1] ELSE past

RECURSIVE findStandaloneNextMatchPosition(_, _, _, _)
findStandaloneNextMatchPosition(str, match, pos, past) ==
    LET nextPos == find(str, match, pos)
        n == Len(match)
    IN IF nextPos = npos THEN npos
       ELSE IF nextPos = 0
            THEN IF isCharPunctuationMark(CharAt(str, n, past)) THEN nextPos
                 ELSE IF n = 0 THEN Diverges
                 ELSE findStandaloneNextMatchPosition(str, match, nextPos + n, past)
       ELSE IF nextPos = Len(str) - n
            THEN IF isCharPunctuationMark(CharAt(str, nextPos - 1, past)) THEN nextPos
                 ELSE IF n = 0 THEN Diverges
                 ELSE findStandaloneNextMatchPosition(str, match, nextPos + n, past)
       ELSE IF /\ isCharPunctuationMark(CharAt(str, nextPos - 1, past))
               /\ isCharPunctuationMark(CharAt(str, nextPos + n, past))
            THEN nextPos
            ELSE IF n = 0 THEN Diverges
            ELSE findStandaloneNextMatchPosition(str, match, nextPos + n, past)

\* std::string::replace(pos, count, replace)
replace(str, pos, count, with) ==
    SubSeq(str, 1, pos) \o with \o SubSeq(str, pos + count + 1, Len(str))

\* the while loop of Replace, entered with the position found last
RECURSIVE ReplaceLoop(_, _, _, _, _)
ReplaceLoop(str, match, with, pos, past) ==
    IF pos = Diverges THEN [str |-> str, ok |-> FALSE]
    ELSE IF pos # npos /\ pos < Len(str)
    THEN LET next == replace(str, pos, Len(match), with)
         IN ReplaceLoop(next, match, with,
                findStandaloneNextMatchPosition(next, match, pos + Len(with), past),
                past)
    ELSE [str |-> str, ok |-> TRUE]

\* StringHelper::Replace; ok is false when the search never returns
Replace(str, match, with, replaceAllMatching, past) ==
    LET pos == findStandaloneNextMatchPosition(str, match, 0, past)
    IN IF pos = Diverges THEN [str |-> str, ok |-> FALSE]
       ELSE IF ~replaceAllMatching
       THEN [str |-> IF pos # npos THEN replace(str, pos, Len(match), with) ELSE str,
             ok |-> TRUE]
       ELSE ReplaceLoop(str, match, with, pos, past)

\* Colorize::colorize
colorize(str, color, replaceAllMatching) ==
    [str |-> str, color |-> color, replaceAllMatching |-> replaceAllMatching]

\* ColorizedString(str) / setContext(str)
setContext(str) == [mStr |-> str, mReplaceStrings |-> <<>>]

\* ColorizedString::setColor
setColor(cs, strToColorize, color, replaceAllMatching) ==
    LET rs == cs.mReplaceStrings
        prevColor == IF rs = <<>> THEN <<ResetColor>> ELSE rs[Len(rs)].mPrevColor
        lastColorPos == IF rs = <<>> THEN 0 ELSE rs[Len(rs)].mPosEndColor
        found == find(cs.mStr, strToColorize, 0)
        with == <<AsciiColors(color)>> \o strToColorize \o prevColor
                \o (IF found = npos \/ lastColorPos < found
                    THEN <<AsciiColors(beginColor)>> ELSE <<>>)
    IN IF strToColorize = <<>> /\ color \notin ColorEnum THEN cs
       ELSE
       [cs EXCEPT !.mReplaceStrings = Append(@,
            [mBaseString |-> strToColorize,
             mReplaceString |-> with,
             mPrevColor |-> <<AsciiColors(color)>>,
             mPosEndColor |-> IF found = npos THEN Len(strToColorize) - 1
                              ELSE found + Len(strToColorize),
             mReplaceAllMatching |-> replaceAllMatching])]

\* ColorizedString::colorize, from the i-th replacement on
RECURSIVE ColorizedString_colorize(_, _, _)
ColorizedString_colorize(str, rs, i) ==
    IF i > Len(rs) THEN [str |-> str, ok |-> TRUE]
    ELSE LET r == Replace(str, rs[i].mBaseString, rs[i].mReplaceString,
                          rs[i].mReplaceAllMatching, NUL)
         IN IF r.ok THEN ColorizedString_colorize(r.str, rs, i + 1) ELSE r

\* the setColor loop of createColorizedString, from the i-th range on
RECURSIVE setColors(_, _, _)
setColors(cs, colorizedStrings, i) ==
    IF i > Len(colorizedStrings) THEN cs
    ELSE setColors(setColor(cs, colorizedStrings[i].str, colorizedStrings[i].color,
                            colorizedStrings[i].replaceAllMatching),
                   colorizedStrings, i + 1)

\* Colorize::createColorizedString applied to a fresh ColorizedString of str
\* AsciiColors.at(color) in setColor throws for a color that is not in the table
AtThrows(colorizedStrings) ==
    \E i \in 1..Len(colorizedStrings) :
        colorizedStrings[i].str # <<>> /\ colorizedStrings[i].color \notin ColorEnum

\* ok is false when the call throws or never returns
createColorizedString_always(S, str, colorizedStrings) ==
    IF AtThrows(colorizedStrings) THEN [str |-> str, ok |-> FALSE]
    ELSE LET cs == setColors(setContext(str), colorizedStrings, 1)
         IN ColorizedString_colorize(cs.mStr, cs.mReplaceStrings, 1)
createColorizedString(S, str, colorizedStrings) ==
    IF S.COLORLESS THEN [str |-> str, ok |-> TRUE]
    ELSE IF AtThrows(colorizedStrings) THEN [str |-> str, ok |-> FALSE]
    ELSE LET cs == setColors(setContext(str), colorizedStrings, 1)
         IN ColorizedString_colorize(cs.mStr, cs.mReplaceStrings, 1)

\* ---------------------------------------------------------------- formatter
\* Texts are sequences of characters as in the colorizer. A call that throws
\* yields ok = FALSE.
DigitChars ==
    <<"0", "1", "2", "3", "4", "5", "6", "7", "8", "9", "A", "B", "C", "D", "E", "F">>
IsDigit(c) == \E d \in 1..10 : DigitChars[d] = c
DigitVal(c) == (CHOOSE d \in 1..10 : DigitChars[d] = c) - 1

\* std::to_string(n) and the text "ss << std::uppercase << std::hex << n" yields
RECURSIVE InBase(_, _)
InBase(n, base) ==
    IF n < base THEN <<DigitChars[n + 1]>>
    ELSE InBase(n \div base, base) \o <<DigitChars[(n % base) + 1]>>
to_string(n) == InBase(n, 10)

\* the value of a text of decimal digits
RECURSIVE FromDigits(_)
FromDigits(str) ==
    IF str = <<>> THEN 0
    ELSE 10 * FromDigits(SubSeq(str, 1, Len(str) - 1)) + DigitVal(str[Len(str)])

\* std::stoi for a text without sign and leading space: the value of its
\* leading digits; std::invalid_argument when it has none
stoi(str) ==
    LET k == CHOOSE n \in 0..Len(str) :
                 /\ \A j \in 1..n : IsDigit(str[j])
                 /\ n < Len(str) => ~IsDigit(str[n + 1])
    IN IF k = 0 THEN [ok |-> FALSE, val |-> 0]
       ELSE [ok |-> TRUE, val |-> FromDigits(SubSeq(str, 1, k))]

IsNumber(str) == str # <<>> /\ \A j \in 1..Len(str) : IsDigit(str[j])

stringToHex(input) ==
    IF ~IsNumber(input) THEN <<>>
    ELSE <<"0", "x">> \o InBase(FromDigits(input), 16)

\* std::string::substr(pos, count) and resize(n, c)
substr(str, pos, count) ==
    SubSeq(str, pos + 1, IF pos + count < Len(str) THEN pos + count ELSE Len(str))
resize(str, n, c) ==
    IF n <= Len(str) THEN SubSeq(str, 1, n)
    ELSE str \o [k \in 1..(n - Len(str)) |-> c]

\* the precision that follows the type letter at p of a format key
Precision(fmt, p, end, default) ==
    IF p + 1 <= Len(fmt) /\ CharAt(fmt, p + 1, NUL) # "}"
    THEN stoi(IF end = npos THEN SubSeq(fmt, p + 2, Len(fmt))
              ELSE substr(fmt, p + 1, end))
    ELSE [ok |-> TRUE, val |-> default]

\* the branch of Format for a format key "{:" found at pos. The count of
\* characters replaced is end - pos + 1 in std::size_t; with no "}" after pos,
\* end is npos and the count wraps to 0 for pos = 0.
FormatKey(result, val, pos) ==
    LET end == find(result, <<"}">>, pos)
        fmt == IF end = npos THEN SubSeq(result, pos + 3, Len(result))
               ELSE substr(result, pos + 2, end - pos)
        count == IF end # npos THEN end - pos + 1
                 ELSE IF pos = 0 THEN 0 ELSE Len(result) - pos
        pF == find(fmt, <<"f">>, 0)
        pX == find(fmt, <<"x">>, 0)
        done(text) == [str |-> replace(result, pos, count, text), ok |-> TRUE]
        thrown == [str |-> result, ok |-> FALSE]
    IN IF find(fmt, <<"d">>, 0) # npos THEN done(val)
       ELSE IF pF # npos
       THEN LET precision == Precision(fmt, pF, end, 6)
                posPersBegin == find(val, <<".">>, 0)
            IN IF ~precision.ok THEN thrown
               ELSE IF posPersBegin # npos
               THEN done(resize(val, posPersBegin + precision.val + 1, "0"))
               ELSE done(val)
       ELSE IF find(fmt, <<"s">>, 0) # npos THEN done(val)
       ELSE IF pX # npos
       THEN LET hexVal == stringToHex(val)
                precision == Precision(fmt, pX, end, 0)
                \* precision - hexVal.size() + 2 is computed in std::size_t:
                \* below zero it wraps and insert throws std::length_error
                n == precision.val - Len(hexVal) + 2
            IN IF ~precision.ok THEN thrown
               ELSE IF hexVal # <<>> /\ precision.val >= 1
               THEN IF n < 0 THEN thrown
                    ELSE done(SubSeq(hexVal, 1, 2) \o [k \in 1..n |-> "0"]
                              \o SubSeq(hexVal, 3, Len(hexVal)))
               ELSE done(hexVal)
       ELSE [str |-> result, ok |-> TRUE]

\* one turn of the loop of Format, for the argument of index i
FormatArg_nextKey(result, val, i) ==
    LET key == <<"{">> \o to_string(i + 1) \o <<"}">>
        pKey == find(result, key, 0)
        pEmpty == find(result, <<"{", "}">>, 0)
        pSpaced == find(result, <<"{", " ", "}">>, 0)
        pFormat == find(result, <<"{", ":">>, 0)
    IN IF pKey # npos
       THEN [str |-> replace(result, pKey, Len(key), val), ok |-> TRUE]
       ELSE IF pEmpty # npos
       THEN [str |-> replace(result, pEmpty, 2, val), ok |-> TRUE]
       ELSE IF pSpaced # npos
       THEN [str |-> replace(result, pSpaced, 3, val), ok |-> TRUE]
       ELSE IF pFormat # npos THEN FormatKey(result, val, pFormat)
       ELSE [str |-> result, ok |-> TRUE]
FormatArg(result, val, i) ==
    LET key == <<"{">> \o to_string(i) \o <<"}">>
        pKey == find(result, key, 0)
        pEmpty == find(result, <<"{", "}">>, 0)
        pSpaced == find(result, <<"{", " ", "}">>, 0)
        pFormat == find(result, <<"{", ":">>, 0)
    IN IF pKey # npos
       THEN [str |-> replace(result, pKey, Len(key), val), ok |-> TRUE]
       ELSE IF pEmpty # npos
       THEN [str |-> replace(result, pEmpty, 2, val), ok |-> TRUE]
       ELSE IF pSpaced # npos
       THEN [str |-> replace(result, pSpaced, 3, val), ok |-> TRUE]
       ELSE IF pFormat # npos THEN FormatKey(result, val, pFormat)
       ELSE [str |-> result, ok |-> TRUE]

RECURSIVE FormatFrom(_, _, _)
FormatFrom(result, vals, i) ==
    IF i >= Len(vals) THEN [str |-> result, ok |-> TRUE]
    ELSE LET r == FormatArg(result, vals[i + 1], i)
         IN IF r.ok THEN FormatFrom(r.str, vals, i + 1) ELSE r

\* fmt::Format(fmt, args...), vals being the texts of the arguments
Format_twice(fmt, vals) == FormatFrom(FormatFrom(fmt, vals, 0).str, vals, 0)
Format(fmt, vals) == FormatFrom(fmt, vals, 0)

\* ------------------------------------------------------------ file handles
NewFileLogger(openMode, path) ==
    [mOpenMode |-> openMode, mPath |-> path, isOpen |-> FALSE,
     data |-> <<>>, mtx |-> {}]

\* the key "" stands for the default handle
GetFileLogger(FL, FileLoggerName) ==
    IF FileLoggerName = "" THEN ""
    ELSE IF FileLoggerName \in DOMAIN FL THEN FileLoggerName ELSE ""

\* FileLogImpl::log: the default handle while UseDefaultFileLog is set
ActiveFileLogger_default(S, FL) == ""
ActiveFileLogger(S, FL) ==
    IF S.UseDefaultFileLog THEN "" ELSE GetFileLogger(FL, S.FileLoggerName)

Handle(key) == IF key = "" THEN DefaultFileLogger ELSE FileLoggers[key]

SetHandle(key, h) ==
    IF key = ""
    THEN DefaultFileLogger' = h /\ UNCHANGED FileLoggers
    ELSE FileLoggers' = [FileLoggers EXCEPT ![key] = h] /\ UNCHANGED DefaultFileLogger

\* std::scoped_lock lock(fileLogger.mtx) blocks while another thread holds it
FileLoggerLockable_unguarded(h) == TRUE
FileLoggerLockable(h) == h.mtx = {}

\* mStream.open(mPath, mOpenMode): truncation empties the file
OpenStream(h) ==
    IF h.isOpen THEN h
    ELSE [h EXCEPT !.isOpen = TRUE,
                   !.data = IF h.mOpenMode = "trunc" THEN <<>> ELSE @]

\* mStream << vOut: nothing is written through a stream that is not open
Inserted(h, text) == IF h.isOpen THEN [h EXCEPT !.data = @ \o text] ELSE h

\* a stream insertion is not one indivisible step: first part, then the rest
FirstPart(line) == SubSeq(line, 1, Len(line) \div 2)
RestPart(line) == SubSeq(line, (Len(line) \div 2) + 1, Len(line))

\* ----------------------------------------------------- synchronous dispatch
Return(t) == IF t = Worker THEN "w_top" ELSE "idle"

\* CLogImpl::log : the sink that follows stage n (0 entry, 1 console, 2 file)
CLogImpl_log_swapped(S, n, t) ==
    IF n < 1 /\ S.IsFileLogEnabled THEN "con_lock"
    ELSE IF n < 2 /\ S.IsConsoleLogEnabled THEN "file_lock"
    ELSE IF n < 3 /\ S.BufferLogEnabled THEN "buf_lock"
    ELSE Return(t)
CLogImpl_log(S, n, t) ==
    IF n < 1 /\ S.IsConsoleLogEnabled THEN "con_lock"
    ELSE IF n < 2 /\ S.IsFileLogEnabled THEN "file_lock"
    ELSE IF n < 3 /\ S.BufferLogEnabled THEN "buf_lock"
    ELSE Return(t)

\* logCustom on the synchronous path (ThreadedLog not set)
LogCustom(t, level, label) ==
    /\ pc[t] = "idle"
    /\ ~StateData.ThreadedLog
    /\ sent[t] < NumRecords
    /\ sent' = [sent EXCEPT ![t] = @ + 1]
    /\ cur' = [cur EXCEPT ![t] = [level |-> level, label |-> label,
                                  msg |-> <<Msg(t, sent[t] + 1)>>,
                                  colorStack |-> <<>>]]
    /\ pc' = [pc EXCEPT ![t] = CLogImpl_log(StateData, 0, t)]
    /\ UNCHANGED <<pureVars, configVars, sinkVars, asyncVars, out, hkey, retval, obs>>

\* the std::scoped_lock of thread t on mtx is destroyed where its scope ends
Released_later(mtx, t) == mtx
Released(mtx, t) == mtx \ {t}

\* LogImpl::log
LogImpl_lock(t) ==
    /\ pc[t] = "con_lock"
    /\ LogImpl_mtx = {}
    /\ LogImpl_mtx' = {t}
    /\ out' = [out EXCEPT ![t] = fillLogBuffer(StateData, LogLevels, cur[t], FALSE)]
    /\ pc' = [pc EXCEPT ![t] = "con_write"]
    /\ UNCHANGED <<pureVars, configVars, console, LogBuffer_mtx, fileVars, bufferVars,
                   asyncVars, cur, hkey, sent, retval, obs>>

LogImpl_write(t) ==
    /\ pc[t] = "con_write"
    /\ console' = console \o FirstPart(out[t])
    /\ pc' = [pc EXCEPT ![t] = "con_unlock"]
    /\ UNCHANGED <<pureVars, configVars, LogImpl_mtx, LogBuffer_mtx, fileVars, bufferVars,
                   asyncVars, cur, out, hkey, sent, retval, obs>>

LogImpl_unlock(t) ==
    /\ pc[t] = "con_unlock"
    /\ console' = console \o RestPart(out[t])
    /\ LogImpl_mtx' = Released(LogImpl_mtx, t)
    /\ pc' = [pc EXCEPT ![t] = CLogImpl_log(StateData, 1, t)]
    /\ UNCHANGED <<pureVars, configVars, LogBuffer_mtx, fileVars, bufferVars,
                   asyncVars, cur, out, hkey, sent, retval, obs>>

\* FileLogImpl::log
FileLogImpl_lock(t) ==
    LET key == ActiveFileLogger(StateData, FileLoggers) IN
    /\ pc[t] = "file_lock"
    /\ FileLoggerLockable(Handle(key))
    /\ SetHandle(key, [Handle(key) EXCEPT !.mtx = {t}])
    /\ hkey' = [hkey EXCEPT ![t] = key]
    /\ out' = [out EXCEPT ![t] = fillLogBuffer(StateData, LogLevels, cur[t], TRUE)]
    /\ pc' = [pc EXCEPT ![t] = "file_open"]
    /\ UNCHANGED <<pureVars, configVars, console, LogImpl_mtx, LogBuffer_mtx, bufferVars,
                   asyncVars, cur, sent, retval, obs>>

FileLogImpl_open(t) ==
    /\ pc[t] = "file_open"
    /\ SetHandle(hkey[t], OpenStream(Handle(hkey[t])))
    /\ pc' = [pc EXCEPT ![t] = "file_write"]
    /\ UNCHANGED <<pureVars, configVars, console, LogImpl_mtx, LogBuffer_mtx, bufferVars,
                   asyncVars, cur, out, hkey, sent, retval, obs>>

FileLogImpl_write(t) ==
    /\ pc[t] = "file_write"
    /\ SetHandle(hkey[t], Inserted(Handle(hkey[t]), FirstPart(out[t])))
    /\ pc' = [pc EXCEPT ![t] = "file_unlock"]
    /\ UNCHANGED <<pureVars, configVars, console, LogImpl_mtx, LogBuffer_mtx, bufferVars,
                   asyncVars, cur, out, hkey, sent, retval, obs>>

FileLogImpl_unlock(t) ==
    /\ pc[t] = "file_unlock"
    /\ SetHandle(hkey[t], [Inserted(Handle(hkey[t]), RestPart(out[t])) EXCEPT
                                !.mtx = {}])
    /\ pc' = [pc EXCEPT ![t] = CLogImpl_log(StateData, 2, t)]
    /\ UNCHANGED <<pureVars, configVars, console, LogImpl_mtx, LogBuffer_mtx, bufferVars,
                   asyncVars, cur, out, hkey, sent, retval, obs>>

\* std::vector: emplace_back keeps what the vector holds, also when it has to
\* allocate anew; then the capacity grows as libstdc++ grows it
emplace_back_anew(vec, line) == <<line>>
emplace_back(vec, line) == Append(vec, line)
reserve(cap, n) == IF n > cap THEN n ELSE cap
Grown(size, cap) == IF size < cap THEN cap ELSE IF size = 0 THEN 1 ELSE 2 * size
\* if(vec.size() >= vec.capacity()) vec.reserve(vec.capacity() + BufferSize)
ReserveIfFull(size, cap) ==
    IF size >= cap THEN reserve(cap, cap + capacity.BufferSize) ELSE cap
\* the capacity of vec after the test above and emplace_back
CapacityAfter(size, cap) == Grown(size, ReserveIfFull(size, cap))
\* the same for vec = map[label], which has capacity 0 when it is created
LabelCapacity(caps, label) == IF label \in DOMAIN caps THEN caps[label] ELSE 0
LabelSize(m, label) == IF label \in DOMAIN m THEN Len(m[label]) ELSE 0
LabelCapacityAfter(caps, m, label) ==
    LET c == CapacityAfter(LabelSize(m, label), LabelCapacity(caps, label))
    IN IF label \in DOMAIN caps THEN [caps EXCEPT ![label] = c] ELSE caps @@ (label :> c)

\* vec = map[label]; vec.emplace_back(line)
AppendLabel_front(m, label, line) ==
    IF label \in DOMAIN m
    THEN [m EXCEPT ![label] = <<line>> \o @]
    ELSE m @@ (label :> <<line>>)
AppendLabel(m, label, line) ==
    IF label \in DOMAIN m
    THEN [m EXCEPT ![label] = emplace_back(@, line)]
    ELSE m @@ (label :> <<line>>)

\* LogBufferImpl::log and LogBufferImpl::fileLog take the same mutex
LogBufferImpl_lock(t) ==
    /\ pc[t] \in {"buf_lock", "fbuf_lock"}
    /\ LogBuffer_mtx = {}
    /\ LogBuffer_mtx' = {t}
    /\ out' = [out EXCEPT ![t] = fillLogBuffer(StateData, LogLevels, cur[t], FALSE)]
    /\ pc' = [pc EXCEPT ![t] = IF pc[t] = "buf_lock" THEN "buf_log" ELSE "fbuf_log"]
    /\ UNCHANGED <<pureVars, configVars, console, LogImpl_mtx, fileVars, bufferVars,
                   asyncVars, cur, hkey, sent, retval, obs>>

LogBufferImpl_log(t) ==
    /\ pc[t] = "buf_log"
    /\ mLogBuffer' = IF StateData.BufferLog
                     THEN emplace_back(mLogBuffer, out[t]) ELSE mLogBuffer
    /\ mLogBufferLabel' = IF StateData.BufferLogLabel
                          THEN AppendLabel(mLogBufferLabel, cur[t].label, out[t])
                          ELSE mLogBufferLabel
    /\ capacity' =
          [capacity EXCEPT
             !.mLogBuffer = IF StateData.BufferLog
                            THEN CapacityAfter(Len(mLogBuffer), @) ELSE @,
             !.mLogBufferLabel = IF StateData.BufferLogLabel
                                 THEN LabelCapacityAfter(@, mLogBufferLabel, cur[t].label)
                                 ELSE @]
    /\ LogBuffer_mtx' = {}
    /\ pc' = [pc EXCEPT ![t] = "fbuf_lock"]
    /\ UNCHANGED <<pureVars, configVars, console, LogImpl_mtx, fileVars, mFileLogBuffer,
                   mFileLogBufferLabel, asyncVars, cur, out, hkey, sent, retval, obs>>

\* fileLog tests BufferLog / BufferLogLabel and appends to mLogBuffer
LogBufferImpl_fileLog(t) ==
    /\ pc[t] = "fbuf_log"
    /\ mLogBuffer' = IF StateData.BufferLog
                     THEN emplace_back(mLogBuffer, out[t]) ELSE mLogBuffer
    /\ mFileLogBufferLabel' = IF StateData.BufferLogLabel
                              THEN AppendLabel(mFileLogBufferLabel, cur[t].label, out[t])
                              ELSE mFileLogBufferLabel
    /\ capacity' =
          [capacity EXCEPT
             !.mFileLogBuffer = IF StateData.BufferLog
                                THEN ReserveIfFull(Len(mFileLogBuffer), @) ELSE @,
             !.mLogBuffer = IF StateData.BufferLog
                            THEN Grown(Len(mLogBuffer), @) ELSE @,
             !.mFileLogBufferLabel =
                 IF StateData.BufferLogLabel
                 THEN LabelCapacityAfter(@, mFileLogBufferLabel, cur[t].label)
                 ELSE @]
    /\ LogBuffer_mtx' = {}
    /\ pc' = [pc EXCEPT ![t] = Return(t)]
    /\ UNCHANGED <<pureVars, configVars, console, LogImpl_mtx, fileVars, mFileLogBuffer,
                   mLogBufferLabel, asyncVars, cur, out, hkey, sent, retval, obs>>

ConsoleSteps(t) == LogImpl_lock(t) \/ LogImpl_write(t) \/ LogImpl_unlock(t)

FileSteps(t) ==
    \/ FileLogImpl_lock(t) \/ FileLogImpl_open(t)
    \/ FileLogImpl_write(t) \/ FileLogImpl_unlock(t)

BufferSteps(t) ==
    LogBufferImpl_lock(t) \/ LogBufferImpl_log(t) \/ LogBufferImpl_fileLog(t)

Dispatch(t) == ConsoleSteps(t) \/ FileSteps(t) \/ BufferSteps(t)

\* ------------------------------------------------------------ initial states
\* no std::jthread has been made; mThread is default-constructed
NoThreads ==
    [all |-> <<>>, mThread |-> 0, own |-> [c \in Callers |-> 0],
     joins |-> [c \in Callers |-> 0]]

InitData ==
    /\ LogLevels = DefaultLogLevels
    /\ DefaultFileLogger = NewFileLogger("app", "log.txt")
    /\ FileLoggers = <<>>
    /\ console = <<>>
    /\ LogImpl_mtx = {} /\ LogBuffer_mtx = {} /\ ThreadLog_mtx = {} /\ State_mtx = {}
    /\ mLogBuffer = <<>> /\ mFileLogBuffer = <<>>
    /\ mLogBufferLabel = <<>> /\ mFileLogBufferLabel = <<>>
    /\ capacity = [BufferSize |-> DefaultBufferSize, mLogBuffer |-> 0,
                   mFileLogBuffer |-> 0, mLogBufferLabel |-> <<>>,
                   mFileLogBufferLabel |-> <<>>]
    /\ jthreads = NoThreads
    /\ mLogTasks = <<>>
    /\ mIsFinished = FALSE
    /\ cur = [t \in Threads |-> NoRec]
    /\ out = [t \in Threads |-> <<>>]
    /\ hkey = [t \in Threads |-> ""]
    /\ sent = [t \in Threads |-> 0]
    /\ retval = TRUE
    /\ pushed = <<>> /\ dispatched = <<>>
    /\ obs = {}

\* no worker thread has been started
InitCore ==
    /\ InitData
    /\ mIsRunning = FALSE
    /\ mThread = [joinable |-> FALSE, stop |-> FALSE]
    /\ pc = [t \in Threads |-> IF t = Worker THEN "none" ELSE "idle"]

\* no function is applied on its own; no ColorizeRange is in use
InitCommon ==
    /\ InitCore
    /\ beginColor = "RESET"
    /\ fnIn = <<>> /\ fnOut = <<>>
    /\ nCalls = 0

\* Any combination of the sink flags can be set with SetState before logging.
WithSinkFlags(con, file, bl, bll, bfl, bfll) ==
    LET S == [DefaultStateData EXCEPT
                !.IsConsoleLogEnabled = con, !.IsFileLogEnabled = file,
                !.BufferLog = bl, !.BufferLogLabel = bll,
                !.BufferFileLog = bfl, !.BufferFileLogLabel = bfll]
    IN [S EXCEPT !.BufferLogEnabled = IsBuffering(S)]

\* One thread logs under every combination of the sink flags.
InitDispatch ==
    /\ InitCommon
    /\ \E con, file, bl, bll, bfl, bfll \in BOOLEAN :
         StateData = WithSinkFlags(con, file, bl, bll, bfl, bfll)

NextDispatch ==
    \/ \E label \in Labels : LogCustom(1, "DEBUG", label)
    \/ Dispatch(1)

SpecDispatch == InitDispatch /\ [][NextDispatch]_vars

\* NumThreads threads log to the default file sink, the only sink enabled
\* (tests/thread_test.cxx sets FILE_LOG; the console plays no part in the file).
InitSync ==
    /\ InitCommon
    /\ StateData = WithSinkFlags(FALSE, TRUE, FALSE, FALSE, FALSE, FALSE)

NextSync ==
    \E t \in Callers :
        \/ LogCustom(t, "DEBUG", "default")
        \/ FileSteps(t)

SpecSync == InitSync /\ [][NextSync]_vars

\* NumThreads threads log synchronously to one sink: the console, the default
\* file, or the buffers.
InitOrder ==
    /\ InitCommon
    /\ StateData \in {WithSinkFlags(TRUE, FALSE, FALSE, FALSE, FALSE, FALSE),
                      WithSinkFlags(FALSE, TRUE, FALSE, FALSE, FALSE, FALSE),
                      WithSinkFlags(FALSE, FALSE, TRUE, TRUE, FALSE, FALSE)}

NextOrder ==
    \E t \in Callers :
        \/ LogCustom(t, "DEBUG", "default")
        \/ Dispatch(t)

SpecOrder == InitOrder /\ [][NextOrder]_vars

\* ------------------------------------------------------ asynchronous worker
\* makeTask copies level, label and message into a task the queue owns
makeTask(level, msg, label) ==
    [level |-> level, label |-> label, msg |-> msg, colorStack |-> <<>>]

\* if(!task.mLogLevel || !task.mLabel || !task.mMsg || !task.mSrc) continue;
TaskIsComplete(task) == task # NoRec

\* auto task = std::move(mLogTasks.front()); mLogTasks.pop();
Dequeue_back(q) == [task |-> q[Len(q)], rest |-> SubSeq(q, 1, Len(q) - 1)]
Dequeue_keep(q) == [task |-> Head(q), rest |-> q]
Dequeue(q) == [task |-> Head(q), rest |-> Tail(q)]

\* if(task.mColorStack) { colorizedMsg.setContext(vMsg); createColorizedString(...); }
\* a task made without ranges has no color stack
colorizedMsg(S, task) ==
    IF task.colorStack # <<>>
    THEN createColorizedString(S, task.msg, task.colorStack)
    ELSE [str |-> task.msg, ok |-> TRUE]

\* mCv.notify_one / notify_all with the one thread that can wait on mCv
Notify(wpc) == IF wpc = "w_waiting" THEN "w_woken" ELSE wpc

\* the number of PushLogTask calls made so far, by all producers
RECURSIVE SumOver(_, _)
SumOver(f, S) ==
    IF S = {} THEN 0
    ELSE LET x == CHOOSE y \in S : TRUE IN f[x] + SumOver(f, S \ {x})
PushesBegun == SumOver(sent, Producers)

\* PushLogTask: std::scoped_lock lock(mtx)
PushLogTask_lock(t) ==
    /\ pc[t] = "idle"
    /\ PushesBegun < MaxTasks
    /\ ThreadLog_mtx = {}
    /\ ThreadLog_mtx' = {t}
    /\ sent' = [sent EXCEPT ![t] = @ + 1]
    /\ cur' = [cur EXCEPT ![t] = makeTask("INFO", <<Msg(t, sent[t] + 1)>>, "default")]
    /\ pc' = [pc EXCEPT ![t] = "push_emplace"]
    /\ UNCHANGED <<pureVars, configVars, sinkVars, mLogTasks, mIsRunning, mIsFinished,
                   mThread, State_mtx, pushed, dispatched, out, hkey, retval, obs>>

\* mLogTasks.emplace(std::move(task)); mCv.notify_one(); unlock
PushLogTask_emplace(t) ==
    /\ pc[t] = "push_emplace"
    /\ mLogTasks' = Append(mLogTasks, cur[t])
    /\ pushed' = Append(pushed, cur[t].msg[1])
    /\ ThreadLog_mtx' = {}
    /\ cur' = [cur EXCEPT ![t] = NoRec]
    /\ pc' = [pc EXCEPT ![t] = "idle", ![Worker] = Notify(@)]
    /\ UNCHANGED <<pureVars, configVars, sinkVars, mIsRunning, mIsFinished, mThread,
                   State_mtx, dispatched, out, hkey, sent, retval, obs>>

\* while(!stoken.stop_requested()) ... ; mIsFinished = true
Worker_top ==
    /\ pc[Worker] = "w_top"
    /\ IF mThread.stop
       THEN /\ mIsFinished' = TRUE
            /\ pc' = [pc EXCEPT ![Worker] = "exited"]
       ELSE /\ pc' = [pc EXCEPT ![Worker] = "w_lock"]
            /\ UNCHANGED mIsFinished
    /\ cur' = [cur EXCEPT ![Worker] = NoRec]
    /\ UNCHANGED <<pureVars, configVars, sinkVars, ThreadLog_mtx, mLogTasks, mIsRunning,
                   mThread, State_mtx, pushed, dispatched, out, hkey, sent,
                   retval, obs>>

\* std::unique_lock lock(mtx), and the re-lock when mCv.wait wakes up
Worker_lock ==
    /\ pc[Worker] \in {"w_lock", "w_woken"}
    /\ ThreadLog_mtx = {}
    /\ ThreadLog_mtx' = {Worker}
    /\ pc' = [pc EXCEPT ![Worker] = "w_pred"]
    /\ UNCHANGED <<pureVars, configVars, sinkVars, mLogTasks, mIsRunning, mIsFinished,
                   mThread, State_mtx, pushed, dispatched, cur, out, hkey, sent,
                   retval, obs>>

\* lock.unlock(): the worker gives the queue mutex back before it dispatches
unlock_kept(mtx, t) == mtx
unlock(mtx, t) == mtx \ {t}

\* the predicate of mCv.wait, and what follows when it holds:
\* continue on an empty queue, else front/pop/unlock, apply the color stack to
\* the message and CLogImpl::log
Worker_pred ==
    /\ pc[Worker] = "w_pred"
    /\ IF mLogTasks # <<>> \/ ~mIsRunning
       THEN /\ ThreadLog_mtx' = IF mLogTasks = <<>>
                                 THEN {} ELSE unlock(ThreadLog_mtx, Worker)
            /\ IF mLogTasks = <<>>
               THEN /\ pc' = [pc EXCEPT ![Worker] = "w_top"]
                    /\ UNCHANGED <<pureVars, mLogTasks, cur, dispatched>>
               ELSE /\ mLogTasks' = Dequeue(mLogTasks).rest
                    /\ IF TaskIsComplete(Dequeue(mLogTasks).task)
                       THEN /\ cur' = [cur EXCEPT ![Worker] =
                                         [Dequeue(mLogTasks).task EXCEPT !.msg =
                                            colorizedMsg(StateData, Dequeue(mLogTasks).task).str]]
                            /\ dispatched' = Append(dispatched, Dequeue(mLogTasks).task.msg[1])
                            /\ pc' = [pc EXCEPT ![Worker] =
                                        IF colorizedMsg(StateData, Dequeue(mLogTasks).task).ok
                                        THEN CLogImpl_log(StateData, 0, Worker)
                                        ELSE "crashed"]
                       ELSE /\ pc' = [pc EXCEPT ![Worker] = "w_top"]
                            /\ UNCHANGED <<pureVars, cur, dispatched>>
       ELSE /\ pc' = [pc EXCEPT ![Worker] = "w_block"]
            /\ UNCHANGED <<pureVars, ThreadLog_mtx, mLogTasks, cur, dispatched>>
    /\ UNCHANGED <<pureVars, configVars, sinkVars, mIsRunning, mIsFinished, mThread,
                   State_mtx, pushed, out, hkey, sent, retval, obs>>

\* inside mCv.wait: release the mutex and block, in one step
Worker_block ==
    /\ pc[Worker] = "w_block"
    /\ ThreadLog_mtx' = {}
    /\ pc' = [pc EXCEPT ![Worker] = "w_waiting"]
    /\ UNCHANGED <<pureVars, configVars, sinkVars, mLogTasks, mIsRunning, mIsFinished,
                   mThread, State_mtx, pushed, dispatched, cur, out, hkey, sent,
                   retval, obs>>

\* std::condition_variable may wake a waiter without a notification
Worker_spurious ==
    /\ pc[Worker] = "w_waiting"
    /\ pc' = [pc EXCEPT ![Worker] = "w_woken"]
    /\ UNCHANGED <<pureVars, configVars, sinkVars, asyncVars, cur, out, hkey, sent,
                   retval, obs>>

WorkerStep ==
    Worker_top \/ Worker_lock \/ Worker_pred \/ Worker_block \/ ConsoleSteps(Worker)

\* ------------------------------------------------- Start / Stop / Wait calls
\* where a Start/Stop/Wait returns to: SetState holds State::Impl::Data::mtx
CtlReturn(c) == IF State_mtx = {c} THEN "ss_unlock" ELSE "idle"

StartLoggerThread_call(c) ==
    /\ pc[c] = "idle"
    /\ sent[c] < MaxStarts
    /\ pc' = [pc EXCEPT ![c] = "start_check"]
    /\ UNCHANGED <<pureVars, configVars, sinkVars, asyncVars, cur, out, hkey, sent,
                   retval, obs>>

StopLoggerThread_call(c) ==
    /\ pc[c] = "idle"
    /\ pc' = [pc EXCEPT ![c] = "stop_check"]
    /\ UNCHANGED <<pureVars, configVars, sinkVars, asyncVars, cur, out, hkey, sent,
                   retval, obs>>

WaitLoggerThread_call(c) ==
    /\ pc[c] = "idle"
    /\ pc' = [pc EXCEPT ![c] = "wait_check"]
    /\ UNCHANGED <<pureVars, configVars, sinkVars, asyncVars, cur, out, hkey, sent,
                   retval, obs>>

\* case THREADED_LOG: if(ThreadedLog) StartLoggerThread(); else StopLoggerThread();
ThreadedLogCase_start(isEnabled) == "start_check"
ThreadedLogCase(isEnabled) == IF isEnabled THEN "start_check" ELSE "stop_check"

\* SetState(THREADED_LOG, isEnabled): lock, set the flag, Start or Stop
SetState_threaded(c, isEnabled) ==
    /\ pc[c] = "idle"
    /\ isEnabled => sent[c] < MaxStarts
    /\ State_mtx = {}
    /\ State_mtx' = {c}
    /\ StateData' = [StateData EXCEPT !.ThreadedLog = isEnabled]
    /\ pc' = [pc EXCEPT ![c] = ThreadedLogCase(isEnabled)]
    /\ UNCHANGED <<pureVars, LogLevels, sinkVars, ThreadLog_mtx, mLogTasks, mIsRunning,
                   mIsFinished, mThread, pushed, dispatched, cur, out, hkey,
                   sent, retval, obs>>

SetState_unlock(c) ==
    /\ pc[c] = "ss_unlock"
    /\ State_mtx' = {}
    /\ pc' = [pc EXCEPT ![c] = "idle"]
    /\ UNCHANGED <<pureVars, configVars, sinkVars, ThreadLog_mtx, mLogTasks, mIsRunning,
                   mIsFinished, mThread, pushed, dispatched, cur, out, hkey,
                   sent, retval, obs>>

\* if(!mIsRunning) : the thread is started only when none is running
StartEnters_always(running) == TRUE
StartEnters(running) == ~running

StartLoggerThread_check(c) ==
    /\ pc[c] = "start_check"
    /\ IF StartEnters(mIsRunning)
       THEN pc' = [pc EXCEPT ![c] = "start_set"] /\ UNCHANGED obs
       ELSE pc' = [pc EXCEPT ![c] = CtlReturn(c)] /\ obs' = obs \cup {"start_noop"}
    /\ UNCHANGED <<pureVars, configVars, sinkVars, asyncVars, cur, out, hkey, sent, retval>>

StartLoggerThread_set(c) ==
    /\ pc[c] = "start_set"
    /\ mIsRunning' = TRUE
    /\ pc' = [pc EXCEPT ![c] = "start_spawn"]
    /\ UNCHANGED <<pureVars, configVars, sinkVars, ThreadLog_mtx, mLogTasks, mIsFinished,
                   mThread, State_mtx, pushed, dispatched, cur, out, hkey, sent,
                   retval, obs>>

\* mThread = std::jthread(loggerThreadFunc)
StartLoggerThread_spawn(c) ==
    /\ pc[c] = "start_spawn"
    /\ mThread' = [joinable |-> TRUE, stop |-> FALSE]
    /\ sent' = [sent EXCEPT ![c] = @ + 1]
    /\ pc' = [pc EXCEPT ![c] = CtlReturn(c), ![Worker] = "w_top"]
    /\ UNCHANGED <<pureVars, configVars, sinkVars, ThreadLog_mtx, mLogTasks, mIsRunning,
                   mIsFinished, State_mtx, pushed, dispatched, cur, out, hkey,
                   retval, obs>>

\* if(mIsRunning) : Stop acts only on a running worker
StopEnters(running) == running

StopLoggerThread_check(c) ==
    /\ pc[c] = "stop_check"
    /\ IF StopEnters(mIsRunning)
       THEN pc' = [pc EXCEPT ![c] = "stop_clear"] /\ UNCHANGED obs
       ELSE pc' = [pc EXCEPT ![c] = CtlReturn(c)] /\ obs' = obs \cup {"stop_noop"}
    /\ UNCHANGED <<pureVars, configVars, sinkVars, asyncVars, cur, out, hkey, sent, retval>>

StopLoggerThread_clear(c) ==
    /\ pc[c] = "stop_clear"
    /\ mIsRunning' = FALSE
    /\ pc' = [pc EXCEPT ![c] = "stop_request"]
    /\ UNCHANGED <<pureVars, configVars, sinkVars, ThreadLog_mtx, mLogTasks, mIsFinished,
                   mThread, State_mtx, pushed, dispatched, cur, out, hkey, sent,
                   retval, obs>>

\* mThread.request_stop()
StopLoggerThread_request(c) ==
    /\ pc[c] = "stop_request"
    /\ mThread' = [mThread EXCEPT !.stop = TRUE]
    /\ pc' = [pc EXCEPT ![c] = "stop_notify"]
    /\ UNCHANGED <<pureVars, configVars, sinkVars, ThreadLog_mtx, mLogTasks, mIsRunning,
                   mIsFinished, State_mtx, pushed, dispatched, cur, out, hkey,
                   sent, retval, obs>>

\* mCv.notify_all(), called without holding ThreadLog::Impl::Data::mtx
StopLoggerThread_notify(c) ==
    /\ pc[c] = "stop_notify"
    /\ pc' = [pc EXCEPT ![c] = "stop_join", ![Worker] = Notify(@)]
    /\ UNCHANGED <<pureVars, configVars, sinkVars, asyncVars, cur, out, hkey, sent, retval,
                   obs>>

\* if(mIsRunning) mThread.join();
WaitLoggerThread_check(c) ==
    /\ pc[c] = "wait_check"
    /\ IF mIsRunning
       THEN pc' = [pc EXCEPT ![c] = "wait_join"]
       ELSE pc' = [pc EXCEPT ![c] = CtlReturn(c)]
    /\ UNCHANGED <<pureVars, configVars, sinkVars, asyncVars, cur, out, hkey, sent, retval,
                   obs>>

\* mThread.join() returns once the thread function has returned
join_early(wpc) == TRUE
join(wpc) == wpc = "exited"

Thread_join(c) ==
    /\ pc[c] \in {"stop_join", "wait_join"}
    /\ join(pc[Worker])
    /\ mThread' = [mThread EXCEPT !.joinable = FALSE]
    /\ pc' = [pc EXCEPT ![c] = CtlReturn(c)]
    /\ UNCHANGED <<pureVars, configVars, sinkVars, ThreadLog_mtx, mLogTasks, mIsRunning,
                   mIsFinished, State_mtx, pushed, dispatched, cur, out, hkey,
                   sent, retval, obs>>

CtlCall(c) ==
    \/ StartLoggerThread_call(c) \/ StopLoggerThread_call(c)
    \/ WaitLoggerThread_call(c)

StartStopStep(c) ==
    \/ StartLoggerThread_check(c) \/ StartLoggerThread_set(c)
    \/ StartLoggerThread_spawn(c)
    \/ StopLoggerThread_check(c) \/ StopLoggerThread_clear(c)
    \/ StopLoggerThread_request(c) \/ StopLoggerThread_notify(c)
    \/ Thread_join(c)

CtlStep(c) == StartStopStep(c) \/ WaitLoggerThread_check(c)

ProducerStep == \E t \in Producers : PushLogTask_emplace(t)

\* The configuration the program starts with: the console is the only sink.
InitAsync == InitCommon /\ StateData = DefaultStateData

\* Producers call PushLogTask, one thread calls Start, Stop and Wait.
NextAsync ==
    \/ \E t \in Producers : PushLogTask_lock(t)
    \/ ProducerStep
    \/ WorkerStep
    \/ Worker_spurious
    \/ CtlCall(Ctl)
    \/ CtlStep(Ctl)

SpecAsync == InitAsync /\ [][NextAsync]_vars

\* Scheduling: a thread that can take its next step eventually takes it.
\* Nobody is obliged to call an operation, and no wake-up is owed to a waiter
\* that was not notified.
FairAsync ==
    /\ SpecAsync
    /\ WF_vars(WorkerStep)
    /\ WF_vars(CtlStep(Ctl))
    /\ WF_vars(ProducerStep)

\* The worker is switched on and off through SetState(THREADED_LOG, .) as
\* well as through direct Start and Stop calls.
SwitchCall(c) ==
    \/ StartLoggerThread_call(c) \/ StopLoggerThread_call(c)
    \/ \E b \in BOOLEAN : SetState_threaded(c, b)

SwitchStep(c) == StartStopStep(c) \/ SetState_unlock(c)

NextSwitch ==
    \/ \E t \in Producers : PushLogTask_lock(t)
    \/ ProducerStep
    \/ WorkerStep
    \/ Worker_spurious
    \/ SwitchCall(Ctl)
    \/ SwitchStep(Ctl)

SpecSwitch == InitAsync /\ [][NextSwitch]_vars

FairSwitch ==
    /\ SpecSwitch
    /\ WF_vars(WorkerStep)
    /\ WF_vars(SwitchStep(Ctl))
    /\ WF_vars(ProducerStep)

\* ------------------------------------------------- records with color ranges

\* the overload of makeTask that takes the color stack
makeTask_colorStack(level, msg, colorStack, label) ==
    [makeTask(level, msg, label) EXCEPT !.colorStack = colorStack]

\* logCustom(level, msg, colorStack, label): PushLogTask(makeTask(...)) when
\* ThreadedLog is set, CLogImpl::log(level, msg, label, src) otherwise
LogCustom_colorStack(t, level, msg, colorStack, label) ==
    /\ pc[t] = "idle"
    /\ sent[t] < NumRecords
    /\ sent' = [sent EXCEPT ![t] = @ + 1]
    /\ IF StateData.ThreadedLog
       THEN /\ ThreadLog_mtx = {}
            /\ ThreadLog_mtx' = {t}
            /\ cur' = [cur EXCEPT ![t] = makeTask_colorStack(level, msg, colorStack, label)]
            /\ pc' = [pc EXCEPT ![t] = "push_emplace"]
       ELSE /\ cur' = [cur EXCEPT ![t] = [level |-> level, label |-> label,
                                         msg |-> msg, colorStack |-> <<>>]]
            /\ pc' = [pc EXCEPT ![t] = CLogImpl_log(StateData, 0, t)]
            /\ UNCHANGED ThreadLog_mtx
    /\ UNCHANGED <<pureVars, configVars, sinkVars, mLogTasks, mIsRunning, mIsFinished,
                   mThread, State_mtx, pushed, dispatched, out, hkey, retval, obs>>

\* the messages and color stacks that are logged
ColorMsgs == {<<"h", "i", " ", "y", "o">>, <<"h", "i", "y", "o">>}
ColorStacks ==
    {<<>>,
     <<colorize(<<"h", "i">>, "RED", FALSE)>>,
     <<colorize(<<"y", "o">>, "GREEN", TRUE), colorize(<<"h", "i">>, "RED", FALSE)>>}
BeginColors == {"RESET", "BOLD_WHITE"}

\* The state after SetState calls that choose the sinks, COLORLESS and the
\* mode; with THREADED_LOG set the worker has been started.
InitColor ==
    /\ InitData
    /\ \E con, file, colorless, threaded \in BOOLEAN :
         /\ StateData = [WithSinkFlags(con, file, FALSE, FALSE, FALSE, FALSE)
                           EXCEPT !.COLORLESS = colorless, !.ThreadedLog = threaded]
         /\ mIsRunning = threaded
         /\ mThread = [joinable |-> threaded, stop |-> FALSE]
         /\ pc = [t \in Threads |->
                    IF t = Worker THEN (IF threaded THEN "w_top" ELSE "none") ELSE "idle"]
    /\ beginColor \in BeginColors
    /\ fnIn \in [msg : ColorMsgs, colorStack : ColorStacks]
    /\ fnOut = <<>>
    /\ nCalls = 0

\* One thread logs fnIn.msg with fnIn.colorStack; the worker, when started,
\* dispatches to the console and to the file.
NextColor ==
    \/ LogCustom_colorStack(1, "INFO", fnIn.msg, fnIn.colorStack, "default")
    \/ PushLogTask_emplace(1)
    \/ ConsoleSteps(1) \/ FileSteps(1)
    \/ WorkerStep \/ FileSteps(Worker) \/ Worker_spurious

SpecColor == InitColor /\ [][NextColor]_vars

\* ------------------------------------------------------------ configuration
StateEnum ==
    {"TERMINAL_LOG", "FILE_LOG", "DEFAULT_FILE_LOG", "DIRECT_FLUSH", "BUFFER_LOG",
     "BUFFER_LOG_LABEL", "BUFFER_FILE_LOG", "BUFFER_FILE_LOG_LABEL", "THREADED_LOG",
     "USE_DATE", "USE_TIME", "USE_FILE", "USE_FUNCTION", "USE_LINE", "COLORLESS"}

\* BufferLogEnabled = IsBuffering() after a buffering flag was assigned
Rebuffered_stale(S) == S
Rebuffered(S) == [S EXCEPT !.BufferLogEnabled = IsBuffering(S)]

\* the switch of SetState: the assignments made for one case
SetFlag(S, state, isEnabled) ==
    CASE state = "TERMINAL_LOG" -> [S EXCEPT !.IsConsoleLogEnabled = isEnabled]
      [] state = "FILE_LOG" -> [S EXCEPT !.IsFileLogEnabled = isEnabled]
      [] state = "DEFAULT_FILE_LOG" -> [S EXCEPT !.UseDefaultFileLog = isEnabled]
      [] state = "DIRECT_FLUSH" -> [S EXCEPT !.DirectFlush = isEnabled]
      [] state = "BUFFER_LOG" -> Rebuffered([S EXCEPT !.BufferLog = isEnabled])
      [] state = "BUFFER_LOG_LABEL" -> Rebuffered([S EXCEPT !.BufferLogLabel = isEnabled])
      [] state = "BUFFER_FILE_LOG" -> Rebuffered([S EXCEPT !.BufferFileLog = isEnabled])
      [] state = "BUFFER_FILE_LOG_LABEL" ->
             Rebuffered([S EXCEPT !.BufferFileLogLabel = isEnabled])
      [] state = "THREADED_LOG" -> [S EXCEPT !.ThreadedLog = isEnabled]
      [] state = "USE_DATE" -> [S EXCEPT !.UseDate = isEnabled]
      [] state = "USE_TIME" -> [S EXCEPT !.UseTime = isEnabled]
      [] state = "USE_FILE" -> [S EXCEPT !.UseFile = isEnabled]
      [] state = "USE_FUNCTION" -> [S EXCEPT !.UseFunction = isEnabled]
      [] state = "USE_LINE" -> [S EXCEPT !.UseLine = isEnabled]
      [] state = "COLORLESS" -> [S EXCEPT !.COLORLESS = isEnabled]

\* SetState(state, isEnabled) for every flag but THREADED_LOG: the lock is
\* taken, the case is executed and the lock is released
SetState(c, state, isEnabled) ==
    /\ state # "THREADED_LOG"
    /\ pc[c] = "idle"
    /\ nCalls < MaxSetStates
    /\ State_mtx = {}
    /\ StateData' = SetFlag(StateData, state, isEnabled)
    /\ nCalls' = nCalls + 1
    /\ UNCHANGED <<fnVars, jthreads, LogLevels, sinkVars, asyncVars, pc, cur, out, hkey,
                   sent, retval, obs>>

\* ------------------------------------------------------------- registration
\* std::unordered_map::try_emplace : insert only when the key is absent
try_emplace_assign(m, k, v) ==
    [map |-> [x \in DOMAIN m \cup {k} |-> IF x = k THEN v ELSE m[x]],
     success |-> k \notin DOMAIN m]
try_emplace(m, k, v) ==
    IF k \in DOMAIN m
    THEN [map |-> m, success |-> FALSE]
    ELSE [map |-> m @@ (k :> v), success |-> TRUE]

AddLogLevel(logLevel, color) ==
    /\ State_mtx = {}
    /\ LogLevels' = try_emplace(LogLevels, logLevel, color).map
    /\ retval' = try_emplace(LogLevels, logLevel, color).success
    /\ obs' = IF logLevel \in DOMAIN LogLevels THEN obs \cup {"level_dup"} ELSE obs
    /\ UNCHANGED <<pureVars, StateData, sinkVars, asyncVars, pc, cur, out, hkey, sent>>

AddCustomFileLogger(FileLoggerName, path, openMode) ==
    /\ State_mtx = {}
    /\ FileLoggers' = try_emplace(FileLoggers, FileLoggerName,
                                  NewFileLogger(openMode, path)).map
    /\ retval' = try_emplace(FileLoggers, FileLoggerName,
                             NewFileLogger(openMode, path)).success
    /\ obs' = IF FileLoggerName \in DOMAIN FileLoggers
              THEN obs \cup {"logger_dup"} ELSE obs
    /\ UNCHANGED <<pureVars, configVars, DefaultFileLogger, console, LogImpl_mtx,
                   LogBuffer_mtx, bufferVars, asyncVars, pc, cur, out, hkey, sent>>

UseFileLogger(FileLoggerName) ==
    /\ State_mtx = {}
    /\ StateData' = [StateData EXCEPT !.FileLoggerName = FileLoggerName]
    /\ UNCHANGED <<pureVars, LogLevels, sinkVars, asyncVars, pc, cur, out, hkey, sent,
                   retval, obs>>

\* Registration calls and log calls of one thread, named file loggers in use.
InitReg ==
    /\ InitCommon
    /\ StateData = [WithSinkFlags(FALSE, TRUE, FALSE, FALSE, FALSE, FALSE)
                      EXCEPT !.UseDefaultFileLog = FALSE]

NextReg ==
    \/ \E n \in RegLevels, col \in LevelColors :
         pc[1] = "idle" /\ AddLogLevel(n, col)
    \/ \E n \in LoggerNames, p \in Paths, m \in OpenModes :
         pc[1] = "idle" /\ AddCustomFileLogger(n, p, m)
    \/ \E n \in LoggerNames : pc[1] = "idle" /\ UseFileLogger(n)
    \/ LogCustom(1, "AUDIT", "default")
    \/ FileSteps(1)

SpecReg == InitReg /\ [][NextReg]_vars

\* A thread registers named loggers, selects one, switches DEFAULT_FILE_LOG
\* and logs to the file sink; the program starts with the default handle in use.
InitSelect ==
    /\ InitCommon
    /\ StateData = WithSinkFlags(FALSE, TRUE, FALSE, FALSE, FALSE, FALSE)

NextSelect ==
    \/ \E b \in BOOLEAN : SetState(1, "DEFAULT_FILE_LOG", b)
    \/ \E n \in LoggerNames : pc[1] = "idle" /\ AddCustomFileLogger(n, "a.txt", "app")
    \/ \E n \in LoggerNames : pc[1] = "idle" /\ UseFileLogger(n)
    \/ LogCustom(1, "INFO", "default")
    \/ FileSteps(1)

SpecSelect == InitSelect /\ [][NextSelect]_vars

\* A thread logs to the console and the buffers; then the configuration is
\* changed with SetState, THREADED_LOG included.
InitConfig ==
    /\ InitCommon
    /\ StateData = WithSinkFlags(TRUE, FALSE, TRUE, FALSE, FALSE, FALSE)

\* no log call is in progress and the worker, if there is one, waits for tasks
Quiet == pc[1] = "idle" /\ pc[Worker] \in {"none", "exited", "w_waiting"}

NextConfig ==
    \/ nCalls = 0 /\ pc[Ctl] = "idle" /\ LogCustom(1, "INFO", "default")
    \/ ConsoleSteps(1) \/ BufferSteps(1)
    \/ \E f \in StateEnum, v \in BOOLEAN : Quiet /\ SetState(Ctl, f, v)
    \/ \E v \in BOOLEAN : Quiet /\ SetState_threaded(Ctl, v)
    \/ SwitchStep(Ctl)
    \/ WorkerStep

SpecConfig == InitConfig /\ [][NextConfig]_vars

\* One record is rendered for the console and for a file under every
\* combination of the include flags and of COLORLESS; AUDIT is not registered.
RenderLevels == {"INFO", "AUDIT"}
IncludeFlags == {"UseDate", "UseTime", "UseFile", "UseFunction", "UseLine"}

InitRender ==
    /\ InitCore
    /\ \E d, t, f, fn, l, c \in BOOLEAN :
          StateData = [DefaultStateData EXCEPT
                          !.UseDate = d, !.UseTime = t, !.UseFile = f,
                          !.UseFunction = fn, !.UseLine = l, !.COLORLESS = c]
    /\ beginColor = "RESET"
    /\ fnIn = <<>> /\ fnOut = <<>>
    /\ nCalls = 0

Render(level, label) ==
    /\ fnIn = <<>>
    /\ fnIn' = [level |-> level, label |-> label, msg |-> <<Msg(1, 1)>>,
                colorStack |-> <<>>]
    /\ fnOut' = [console |-> fillLogBuffer(StateData, LogLevels, fnIn', FALSE),
                 file |-> fillLogBuffer(StateData, LogLevels, fnIn', TRUE)]
    /\ UNCHANGED <<beginColor, nCalls, jthreads, configVars, sinkVars, asyncVars, pc, cur,
                   out, hkey, sent, retval, obs>>

NextRender == \E level \in RenderLevels, label \in Labels : Render(level, label)

SpecRender == InitRender /\ [][NextRender]_vars

\* findStandaloneNextMatchPosition is applied on its own to short texts over a
\* letter and a space, to the two texts "the cat sat" and "concatenate cats",
\* with every cursor and with every outcome of a read at index size().
Alphabet == {"a", " "}
RECURSIVE Texts(_)
Texts(n) ==
    IF n = 0 THEN {<<>>}
    ELSE Texts(n - 1) \cup {Append(w, c) : w \in {x \in Texts(n - 1) : Len(x) = n - 1},
                                           c \in Alphabet}
Cat == <<"c", "a", "t">>
TheCatSat == <<"t", "h", "e", " ">> \o Cat \o <<" ", "s", "a", "t">>
ConcatenateCats ==
    <<"c", "o", "n">> \o Cat \o <<"e", "n", "a", "t", "e", " ">> \o Cat \o <<"s">>
FindTexts == Texts(MaxLen) \cup {Cat, TheCatSat, ConcatenateCats}
FindMatches == (Texts(2) \ {<<>>}) \cup {Cat}
Pasts == {NUL} \cup Alphabet

InitFind ==
    /\ InitCore
    /\ StateData = DefaultStateData
    /\ beginColor = "RESET"
    /\ fnIn \in [str : FindTexts, match : FindMatches, pos : 0..MaxLen, past : Pasts]
    /\ fnOut = <<>>
    /\ nCalls = 0

Find ==
    /\ fnOut = <<>>
    /\ fnOut' = <<findStandaloneNextMatchPosition(fnIn.str, fnIn.match, fnIn.pos,
                                                  fnIn.past)>>
    /\ UNCHANGED <<beginColor, fnIn, nCalls, jthreads, configVars, sinkVars, asyncVars, pc,
                   cur, out, hkey, sent, retval, obs>>

NextFind == Find

SpecFind == InitFind /\ [][NextFind]_vars

\* StringHelper::Replace is applied on its own, as ColorizedString::colorize
\* applies it: the replacement is the target between two escape sequences and
\* the text is a std::string, whose character at index size() is NUL.
Wrapped(match) == <<AsciiColors("RED")>> \o match \o <<ResetColor>>

InitReplace ==
    /\ InitCore
    /\ StateData = DefaultStateData
    /\ beginColor = "RESET"
    /\ fnIn \in [str : FindTexts, match : FindMatches, replaceAllMatching : BOOLEAN]
    /\ fnOut = <<>>
    /\ nCalls = 0

ApplyReplace ==
    /\ fnOut = <<>>
    /\ fnOut' = Replace(fnIn.str, fnIn.match, Wrapped(fnIn.match),
                        fnIn.replaceAllMatching, NUL)
    /\ UNCHANGED <<beginColor, fnIn, nCalls, jthreads, configVars, sinkVars, asyncVars, pc,
                   cur, out, hkey, sent, retval, obs>>

NextReplace == ApplyReplace

SpecReplace == InitReplace /\ [][NextReplace]_vars

\* createColorizedString is applied on its own to a message and a list of at
\* most MaxRanges ranges; the i-th range of a list has the i-th color, and a
\* list can hold the range with an empty target and a color outside the table.
HelloWorld ==
    <<"H", "e", "l", "l", "o", " ", "w", "o", "r", "l", "d", "!">>
RangeTexts == {<<"h", "i", " ", "y", "o">>, <<" ", "h", "i">>, HelloWorld}
RangeTargets ==
    {<<>>, <<"h", "i">>, <<"z", "z">>, SubSeq(HelloWorld, 7, 11),
     SubSeq(HelloWorld, 1, 11)}
ColorAt(i) == IF i = 1 THEN "RED" ELSE IF i = 2 THEN "BLUE" ELSE "GREEN"
RangesAt(i) ==
    {colorize(t, ColorAt(i), a) : t \in RangeTargets, a \in BOOLEAN}
        \cup {colorize(<<>>, "NONE", FALSE)}
RECURSIVE RangeLists(_)
RangeLists(n) ==
    IF n = 0 THEN {<<>>}
    ELSE RangeLists(n - 1)
         \cup {Append(w, r) : w \in {x \in RangeLists(n - 1) : Len(x) = n - 1},
                              r \in RangesAt(n)}

InitRanges ==
    /\ InitCore
    /\ StateData = DefaultStateData
    /\ beginColor \in BeginColors
    /\ fnIn \in [msg : RangeTexts, colorStack : RangeLists(MaxRanges)]
    /\ fnOut = <<>>
    /\ nCalls = 0

ApplyRanges ==
    /\ fnOut = <<>>
    /\ fnOut' = createColorizedString(StateData, fnIn.msg, fnIn.colorStack)
    /\ UNCHANGED <<beginColor, fnIn, nCalls, jthreads, configVars, sinkVars, asyncVars, pc,
                   cur, out, hkey, sent, retval, obs>>

NextRanges == ApplyRanges

SpecRanges == InitRanges /\ [][NextRanges]_vars

\* Format is applied on its own to a template of at most MaxPieces pieces and
\* the texts of at most two arguments. A piece is a placeholder, a comma, or
\* a placeholder between two literal braces.
Pieces == {"{0}", "{1}", "{}", "{ }", "{:d}", ",", "{{0}}", "{{}}"}
Chars(piece) ==
    CASE piece = "{0}" -> <<"{", "0", "}">>
      [] piece = "{1}" -> <<"{", "1", "}">>
      [] piece = "{}" -> <<"{", "}">>
      [] piece = "{ }" -> <<"{", " ", "}">>
      [] piece = "{:d}" -> <<"{", ":", "d", "}">>
      [] piece = "," -> <<",">>
      [] piece = "{{0}}" -> <<"{", "{", "0", "}", "}">>
      [] piece = "{{}}" -> <<"{", "{", "}", "}">>
RECURSIVE Template(_)
Template(pieces) ==
    IF pieces = <<>> THEN <<>> ELSE Chars(Head(pieces)) \o Template(Tail(pieces))
RECURSIVE PieceLists(_)
PieceLists(n) ==
    IF n = 0 THEN {<<>>}
    ELSE PieceLists(n - 1)
         \cup {Append(w, x) : w \in {y \in PieceLists(n - 1) : Len(y) = n - 1},
                              x \in Pieces}
ArgTexts == {<<"a">>, <<"1">>, <<>>}
ArgLists == {<<>>} \cup {<<a>> : a \in ArgTexts} \cup {<<a, b>> : a, b \in ArgTexts}

InitFormat ==
    /\ InitCore
    /\ StateData = DefaultStateData
    /\ beginColor = "RESET"
    /\ fnIn \in [pieces : PieceLists(MaxPieces), vals : ArgLists]
    /\ fnOut = <<>>
    /\ nCalls = 0

ApplyFormat ==
    /\ fnOut = <<>>
    /\ fnOut' = Format(Template(fnIn.pieces), fnIn.vals)
    /\ UNCHANGED <<beginColor, fnIn, nCalls, jthreads, configVars, sinkVars, asyncVars, pc,
                   cur, out, hkey, sent, retval, obs>>

NextFormat == ApplyFormat

SpecFormat == InitFormat /\ [][NextFormat]_vars

\* Format is applied on its own to a template of one typed placeholder,
\* "{:x" or "{:f" with a precision or none (absent), followed by nothing or by
\* one character, and to one argument: an integer or a decimal fraction.
absent == -1
TypeLetters == {"x", "f"}
Tails == {<<>>, <<"!">>, <<"d">>}
IntegerArgs == {0, 3, 10, 255, 6789}
FractionArgs == {<<"3", ".", "1", "4", "1", "5", "9">>, <<"3", ".", "1", "4">>}
TypedArgs == {to_string(v) : v \in IntegerArgs} \cup FractionArgs
TypedTemplate(in) ==
    <<"{", ":", in.letter>>
    \o (IF in.precision = absent THEN <<>> ELSE to_string(in.precision))
    \o <<"}">> \o in.tail

InitTyped ==
    /\ InitCore
    /\ StateData = DefaultStateData
    /\ beginColor = "RESET"
    /\ fnIn \in [letter : TypeLetters, precision : {absent} \cup (0..MaxPrecision),
                 tail : Tails, val : TypedArgs]
    /\ fnOut = <<>>
    /\ nCalls = 0

ApplyTyped ==
    /\ fnOut = <<>>
    /\ fnOut' = Format(TypedTemplate(fnIn), <<fnIn.val>>)
    /\ UNCHANGED <<beginColor, fnIn, nCalls, jthreads, configVars, sinkVars, asyncVars, pc,
                   cur, out, hkey, sent, retval, obs>>

NextTyped == ApplyTyped

SpecTyped == InitTyped /\ [][NextTyped]_vars

\* Format is applied on its own to a template of at most MaxPieces pieces and
\* the texts of at most two arguments, a text being plain or the text of a
\* placeholder.
InsertTexts == {<<"a">>, <<"{", "}">>, <<"{", "1", "}">>}
InsertLists ==
    {<<>>} \cup {<<a>> : a \in InsertTexts} \cup {<<a, b>> : a, b \in InsertTexts}

InitInsert ==
    /\ InitCore
    /\ StateData = DefaultStateData
    /\ beginColor = "RESET"
    /\ fnIn \in [pieces : PieceLists(MaxPieces), vals : InsertLists]
    /\ fnOut = <<>>
    /\ nCalls = 0

NextInsert == ApplyFormat

SpecInsert == InitInsert /\ [][NextInsert]_vars

\* State::setDefaultBufferSize; it takes no mutex, and it is called here while
\* no thread is inside LogBufferImpl::log or fileLog
setDefaultBufferSize(c, size) ==
    /\ pc[c] = "idle"
    /\ LogBuffer_mtx = {}
    /\ capacity' =
          [BufferSize |-> size,
           mLogBuffer |-> reserve(capacity.mLogBuffer, size),
           mFileLogBuffer |-> reserve(capacity.mFileLogBuffer, size),
           mLogBufferLabel |->
               [l \in DOMAIN capacity.mLogBufferLabel |->
                   reserve(capacity.mLogBufferLabel[l], size)],
           mFileLogBufferLabel |->
               [l \in DOMAIN capacity.mFileLogBufferLabel |->
                   reserve(capacity.mFileLogBufferLabel[l], size)]]
    /\ UNCHANGED <<pureVars, configVars, console, LogImpl_mtx, LogBuffer_mtx, fileVars,
                   mLogBuffer, mFileLogBuffer, mLogBufferLabel, mFileLogBufferLabel,
                   asyncVars, pc, cur, out, hkey, sent, retval, obs>>

\* One thread logs labeled and unlabeled records to the buffers; the capacity
\* hint is set to at most MaxCapacity at any time between the appends.
InitBuffer ==
    /\ InitCommon
    /\ StateData = WithSinkFlags(FALSE, FALSE, TRUE, TRUE, FALSE, FALSE)

NextBuffer ==
    \/ \E label \in Labels : LogCustom(1, "INFO", label)
    \/ BufferSteps(1)
    \/ \E size \in 0..MaxCapacity : setDefaultBufferSize(Ctl, size)

SpecBuffer == InitBuffer /\ [][NextBuffer]_vars

\* ----------------------------------------- Start / Stop from several threads
\* jthreads.all[w] is the w-th std::jthread that was constructed: the position
\* of its loggerThreadFunc and its stop state. jthreads.mThread is the thread
\* Data::mThread owns (0: not joinable), own[c] the temporary caller c has
\* constructed and joins[c] the thread caller c is inside join() on.
joinable == jthreads.mThread # 0
Alive == {w \in 1..Len(jthreads.all) : jthreads.all[w].wpc # "exited"}

\* request_stop() of the jthread that owns thread w; nothing on an empty one
request_stop(J, w) == IF w = 0 THEN J ELSE [J EXCEPT !.all[w].stop = TRUE]

\* std::jthread(loggerThreadFunc): the thread runs once it is constructed
jthread_construct(c) ==
    /\ pc[c] = "start_spawn"
    /\ jthreads' = [jthreads EXCEPT
                      !.all = Append(@, [wpc |-> "top", stop |-> FALSE]),
                      !.own[c] = Len(jthreads.all) + 1]
    /\ sent' = [sent EXCEPT ![c] = @ + 1]
    /\ pc' = [pc EXCEPT ![c] = "start_assign"]
    /\ UNCHANGED <<fnVars, nCalls, configVars, sinkVars, asyncVars, cur, out, hkey,
                   retval, obs>>

\* mThread = std::move(temporary): a joinable mThread is asked to stop and is
\* joined before it takes the new thread
jthread_assign(c) ==
    /\ pc[c] = "start_assign"
    /\ IF joinable
       THEN /\ jthreads' = [request_stop(jthreads, jthreads.mThread) EXCEPT
                              !.joins[c] = jthreads.mThread]
            /\ pc' = [pc EXCEPT ![c] = "assign_join"]
       ELSE /\ jthreads' = [jthreads EXCEPT !.mThread = jthreads.own[c], !.own[c] = 0]
            /\ pc' = [pc EXCEPT ![c] = CtlReturn(c)]
    /\ UNCHANGED <<fnVars, nCalls, configVars, sinkVars, asyncVars, cur, out, hkey,
                   sent, retval, obs>>

\* mThread.request_stop()
jthread_request_stop(c) ==
    /\ pc[c] = "stop_request"
    /\ jthreads' = request_stop(jthreads, jthreads.mThread)
    /\ pc' = [pc EXCEPT ![c] = "stop_notify"]
    /\ UNCHANGED <<fnVars, nCalls, configVars, sinkVars, asyncVars, cur, out, hkey,
                   sent, retval, obs>>

\* mThread.join() is entered; on a thread that is not joinable it throws
jthread_join(c) ==
    /\ pc[c] = "stop_join"
    /\ IF joinable
       THEN /\ jthreads' = [jthreads EXCEPT !.joins[c] = jthreads.mThread]
            /\ pc' = [pc EXCEPT ![c] = "stop_joining"]
       ELSE /\ pc' = [pc EXCEPT ![c] = "crashed"]
            /\ UNCHANGED jthreads
    /\ UNCHANGED <<fnVars, nCalls, configVars, sinkVars, asyncVars, cur, out, hkey,
                   sent, retval, obs>>

\* join() returns once the thread function has returned. The join of Stop
\* leaves mThread not joinable; when mThread has been assigned another thread
\* in the meantime the two accesses race and either value may remain.
jthread_joined(c) ==
    /\ pc[c] \in {"assign_join", "stop_joining"}
    /\ jthreads.joins[c] \notin Alive
    /\ IF pc[c] = "assign_join"
       THEN jthreads' = [jthreads EXCEPT !.mThread = jthreads.own[c],
                                         !.own[c] = 0, !.joins[c] = 0]
       ELSE \E m \in {0, jthreads.mThread} :
               /\ jthreads.mThread = jthreads.joins[c] => m = 0
               /\ jthreads' = [jthreads EXCEPT !.mThread = m, !.joins[c] = 0]
    /\ pc' = [pc EXCEPT ![c] = CtlReturn(c)]
    /\ UNCHANGED <<fnVars, nCalls, configVars, sinkVars, asyncVars, cur, out, hkey,
                   sent, retval, obs>>

\* loggerThreadFunc of thread w while the queue is empty: it returns when its
\* stop was requested, it waits on mCv while mIsRunning, and a waiting thread
\* that is notified or wakes spuriously goes on once mIsRunning is false
loggerThreadFunc(w) ==
    /\ w \in Alive
    /\ mLogTasks = <<>>
    /\ \/ /\ jthreads.all[w].wpc = "top"
          /\ jthreads.all[w].stop
          /\ jthreads' = [jthreads EXCEPT !.all[w].wpc = "exited"]
          /\ mIsFinished' = TRUE
       \/ /\ jthreads.all[w].wpc = "top"
          /\ ~jthreads.all[w].stop
          /\ mIsRunning
          /\ jthreads' = [jthreads EXCEPT !.all[w].wpc = "waiting"]
          /\ UNCHANGED mIsFinished
       \/ /\ jthreads.all[w].wpc = "waiting"
          /\ ~mIsRunning
          /\ jthreads' = [jthreads EXCEPT !.all[w].wpc = "top"]
          /\ UNCHANGED mIsFinished
    /\ UNCHANGED <<fnVars, nCalls, configVars, sinkVars, ThreadLog_mtx, mLogTasks,
                   mIsRunning, mThread, State_mtx, pushed, dispatched, pc, cur, out,
                   hkey, sent, retval, obs>>

StartSteps(c) ==
    \/ StartLoggerThread_check(c) \/ StartLoggerThread_set(c)
    \/ jthread_construct(c) \/ jthread_assign(c)

StopSteps(c) ==
    \/ StopLoggerThread_check(c) \/ StopLoggerThread_clear(c)
    \/ jthread_request_stop(c) \/ StopLoggerThread_notify(c)
    \/ jthread_join(c)

\* Several threads call StartLoggerThread, StopLoggerThread and
\* SetState(THREADED_LOG, .) at any time; nothing is logged.
NextStarts ==
    \/ \E c \in Callers : SwitchCall(c)
    \/ \E c \in Callers : StartSteps(c)
    \/ \E c \in Callers : StopSteps(c)
    \/ \E c \in Callers : jthread_joined(c)
    \/ \E c \in Callers : SetState_unlock(c)
    \/ \E w \in 1..Len(jthreads.all) : loggerThreadFunc(w)

SpecStarts == InitAsync /\ [][NextStarts]_vars

\* NumThreads threads log synchronously with the console, the file and the
\* buffer sinks all enabled, so that every call passes through every sink.
InitSinks ==
    /\ InitCommon
    /\ StateData = WithSinkFlags(TRUE, TRUE, TRUE, TRUE, FALSE, FALSE)

NextSinks ==
    \E t \in Callers :
        \/ LogCustom(t, "INFO", "default")
        \/ Dispatch(t)

SpecSinks == InitSinks /\ [][NextSinks]_vars

\* ------------------------------------------- the buffers and their other users
Containers == {"mLogBuffer", "mFileLogBuffer", "mLogBufferLabel", "mFileLogBufferLabel"}
LabelContainers == {"mLogBufferLabel", "mFileLogBufferLabel"}

\* what a Clear or Get call works on: a container, and a label for *ByLabel
BufferCall(container, label) ==
    [NoRec EXCEPT !.label = container,
                  !.msg = IF label = "" THEN <<>> ELSE <<label>>]

\* std::unordered_map::erase(label)
erase(m, label) == [l \in DOMAIN m \ {label} |-> m[l]]

\* State::Clear*: std::scoped_lock lock(State::Impl::Data::mtx), the mutex of
\* the state, and then clear() or erase(label) on the container
Clear_lock(c, container, label) ==
    /\ pc[c] = "idle"
    /\ label # "" => container \in LabelContainers
    /\ State_mtx = {}
    /\ State_mtx' = {c}
    /\ cur' = [cur EXCEPT ![c] = BufferCall(container, label)]
    /\ pc' = [pc EXCEPT ![c] = "clear"]
    /\ UNCHANGED <<pureVars, configVars, sinkVars, ThreadLog_mtx, mLogTasks, mIsRunning,
                   mIsFinished, mThread, pushed, dispatched, out, hkey, sent, retval,
                   obs>>

Clear_clear(c) ==
    LET container == cur[c].label
        Cleared(m) == IF cur[c].msg = <<>> THEN <<>> ELSE erase(m, cur[c].msg[1])
    IN
    /\ pc[c] = "clear"
    /\ mLogBuffer' = IF container = "mLogBuffer" THEN <<>> ELSE mLogBuffer
    /\ mFileLogBuffer' = IF container = "mFileLogBuffer" THEN <<>> ELSE mFileLogBuffer
    /\ mLogBufferLabel' = IF container = "mLogBufferLabel"
                          THEN Cleared(mLogBufferLabel) ELSE mLogBufferLabel
    /\ mFileLogBufferLabel' = IF container = "mFileLogBufferLabel"
                              THEN Cleared(mFileLogBufferLabel) ELSE mFileLogBufferLabel
    /\ capacity' = [capacity EXCEPT
                      !.mLogBufferLabel = IF container = "mLogBufferLabel"
                                          THEN Cleared(@) ELSE @,
                      !.mFileLogBufferLabel = IF container = "mFileLogBufferLabel"
                                              THEN Cleared(@) ELSE @]
    /\ State_mtx' = {}
    /\ cur' = [cur EXCEPT ![c] = NoRec]
    /\ pc' = [pc EXCEPT ![c] = "idle"]
    /\ UNCHANGED <<pureVars, configVars, console, LogImpl_mtx, LogBuffer_mtx, fileVars,
                   ThreadLog_mtx, mLogTasks, mIsRunning, mIsFinished, mThread, pushed,
                   dispatched, out, hkey, sent, retval, obs>>

\* State::Get*Buffer*: the container is copied, no mutex is taken
GetBuffer_copy(c, container, label) ==
    /\ pc[c] = "idle"
    /\ label # "" => container \in LabelContainers
    /\ cur' = [cur EXCEPT ![c] = BufferCall(container, label)]
    /\ pc' = [pc EXCEPT ![c] = "get"]
    /\ UNCHANGED <<pureVars, configVars, sinkVars, asyncVars, out, hkey, sent, retval,
                   obs>>

GetBuffer_return(c) ==
    /\ pc[c] = "get"
    /\ cur' = [cur EXCEPT ![c] = NoRec]
    /\ pc' = [pc EXCEPT ![c] = "idle"]
    /\ UNCHANGED <<pureVars, configVars, sinkVars, asyncVars, out, hkey, sent, retval,
                   obs>>

\* State::setDefaultBufferSize at any time: BufferSize = size, no mutex taken,
\* and then reserve(size) on every buffer
setDefaultBufferSize_set(c, size) ==
    /\ pc[c] = "idle"
    /\ capacity' = [capacity EXCEPT !.BufferSize = size]
    /\ pc' = [pc EXCEPT ![c] = "reserve"]
    /\ UNCHANGED <<pureVars, configVars, console, LogImpl_mtx, LogBuffer_mtx, fileVars,
                   mLogBuffer, mFileLogBuffer, mLogBufferLabel, mFileLogBufferLabel,
                   asyncVars, cur, out, hkey, sent, retval, obs>>

setDefaultBufferSize_reserve(c) ==
    LET size == capacity.BufferSize IN
    /\ pc[c] = "reserve"
    /\ capacity' =
          [BufferSize |-> size,
           mLogBuffer |-> reserve(capacity.mLogBuffer, size),
           mFileLogBuffer |-> reserve(capacity.mFileLogBuffer, size),
           mLogBufferLabel |->
               [l \in DOMAIN capacity.mLogBufferLabel |->
                   reserve(capacity.mLogBufferLabel[l], size)],
           mFileLogBufferLabel |->
               [l \in DOMAIN capacity.mFileLogBufferLabel |->
                   reserve(capacity.mFileLogBufferLabel[l], size)]]
    /\ pc' = [pc EXCEPT ![c] = "idle"]
    /\ UNCHANGED <<pureVars, configVars, console, LogImpl_mtx, LogBuffer_mtx, fileVars,
                   mLogBuffer, mFileLogBuffer, mLogBufferLabel, mFileLogBufferLabel,
                   asyncVars, cur, out, hkey, sent, retval, obs>>

\* the buffer containers thread t reads or writes at its position
Accessing(t) ==
    IF pc[t] = "buf_log"
    THEN (IF StateData.BufferLog THEN {"mLogBuffer"} ELSE {})
         \cup (IF StateData.BufferLogLabel THEN {"mLogBufferLabel"} ELSE {})
    ELSE IF pc[t] = "fbuf_log"
    THEN (IF StateData.BufferLog THEN {"mFileLogBuffer", "mLogBuffer"} ELSE {})
         \cup (IF StateData.BufferLogLabel THEN {"mFileLogBufferLabel"} ELSE {})
    ELSE IF pc[t] \in {"clear", "get"} THEN {cur[t].label}
    ELSE IF pc[t] = "reserve" THEN Containers
    ELSE {}

\* Thread 1 logs to the buffers while thread 2 clears and reads them and sets
\* the capacity hint.
InitShared ==
    /\ InitCommon
    /\ StateData = WithSinkFlags(FALSE, FALSE, TRUE, TRUE, FALSE, FALSE)

NextShared ==
    \/ \E label \in Labels : LogCustom(1, "INFO", label)
    \/ BufferSteps(1)
    \/ \E container \in Containers, label \in {""} \cup Labels :
          Clear_lock(2, container, label)
    \/ Clear_clear(2)
    \/ \E container \in Containers, label \in {""} \cup Labels :
          GetBuffer_copy(2, container, label)
    \/ GetBuffer_return(2)
    \/ \E size \in 0..MaxCapacity : setDefaultBufferSize_set(2, size)
    \/ setDefaultBufferSize_reserve(2)

SpecShared == InitShared /\ [][NextShared]_vars

\* ------------------------------------------- the file handles' other users
\* the handles CloseStream(stream) closes: all of them for "", the default
\* one for "default", else the named one if it is registered
StreamsOf(stream) ==
    IF stream = "" THEN {""} \cup DOMAIN FileLoggers
    ELSE IF stream = "default" THEN {""}
    ELSE {stream} \cap DOMAIN FileLoggers

\* State::CloseStream and State::SetDefaultFileLogPath:
\* std::scoped_lock lock(State::Impl::Data::mtx), the mutex of the state
CloseStream_lock(c, stream) ==
    /\ pc[c] = "idle"
    /\ State_mtx = {}
    /\ State_mtx' = {c}
    /\ cur' = [cur EXCEPT ![c] = [NoRec EXCEPT !.label = stream]]
    /\ pc' = [pc EXCEPT ![c] = "close"]
    /\ UNCHANGED <<pureVars, configVars, sinkVars, ThreadLog_mtx, mLogTasks, mIsRunning,
                   mIsFinished, mThread, pushed, dispatched, out, hkey, sent, retval,
                   obs>>

\* if(mStream.is_open()) mStream.close();
CloseStream_close(c) ==
    /\ pc[c] = "close"
    /\ DefaultFileLogger' = IF "" \in StreamsOf(cur[c].label)
                            THEN [DefaultFileLogger EXCEPT !.isOpen = FALSE]
                            ELSE DefaultFileLogger
    /\ FileLoggers' = [n \in DOMAIN FileLoggers |->
                         IF n \in StreamsOf(cur[c].label)
                         THEN [FileLoggers[n] EXCEPT !.isOpen = FALSE]
                         ELSE FileLoggers[n]]
    /\ State_mtx' = {}
    /\ cur' = [cur EXCEPT ![c] = NoRec]
    /\ pc' = [pc EXCEPT ![c] = "idle"]
    /\ UNCHANGED <<pureVars, configVars, console, LogImpl_mtx, LogBuffer_mtx, bufferVars,
                   ThreadLog_mtx, mLogTasks, mIsRunning, mIsFinished, mThread, pushed,
                   dispatched, out, hkey, sent, retval, obs>>

SetDefaultFileLogPath_lock(c, path) ==
    /\ pc[c] = "idle"
    /\ State_mtx = {}
    /\ State_mtx' = {c}
    /\ cur' = [cur EXCEPT ![c] = [NoRec EXCEPT !.label = path]]
    /\ pc' = [pc EXCEPT ![c] = "set_path"]
    /\ UNCHANGED <<pureVars, configVars, sinkVars, ThreadLog_mtx, mLogTasks, mIsRunning,
                   mIsFinished, mThread, pushed, dispatched, out, hkey, sent, retval,
                   obs>>

\* DefaultFileLogger.mPath = path
SetDefaultFileLogPath_set(c) ==
    /\ pc[c] = "set_path"
    /\ DefaultFileLogger' = [DefaultFileLogger EXCEPT !.mPath = cur[c].label]
    /\ State_mtx' = {}
    /\ cur' = [cur EXCEPT ![c] = NoRec]
    /\ pc' = [pc EXCEPT ![c] = "idle"]
    /\ UNCHANGED <<pureVars, configVars, console, LogImpl_mtx, LogBuffer_mtx,
                   FileLoggers, bufferVars, ThreadLog_mtx, mLogTasks, mIsRunning,
                   mIsFinished, mThread, pushed, dispatched, out, hkey, sent, retval,
                   obs>>

\* the file handles whose stream or path thread t reads or writes at its position
HandlesUsed(t) ==
    IF pc[t] \in {"file_open", "file_write", "file_unlock"} THEN {hkey[t]}
    ELSE IF pc[t] = "close" THEN StreamsOf(cur[t].label)
    ELSE IF pc[t] = "set_path" THEN {""}
    ELSE {}

\* Thread 1 logs to the default file while thread 2 closes streams and changes
\* the default path.
NextClose ==
    \/ LogCustom(1, "INFO", "default")
    \/ FileSteps(1)
    \/ \E stream \in {"", "default"} : CloseStream_lock(2, stream)
    \/ CloseStream_close(2)
    \/ \E path \in Paths : SetDefaultFileLogPath_lock(2, path)
    \/ SetDefaultFileLogPath_set(2)

SpecClose == InitSync /\ [][NextClose]_vars

\* ---------------------------------------------- a switch of the mode
\* The state after SetState(THREADED_LOG, true) with the console and the file
\* enabled: the worker has been started.
InitMode ==
    /\ InitData
    /\ StateData = [WithSinkFlags(TRUE, TRUE, FALSE, FALSE, FALSE, FALSE)
                      EXCEPT !.ThreadedLog = TRUE]
    /\ mIsRunning = TRUE
    /\ mThread = [joinable |-> TRUE, stop |-> FALSE]
    /\ pc = [t \in Threads |-> IF t = Worker THEN "w_top" ELSE "idle"]
    /\ beginColor = "RESET"
    /\ fnIn = <<>> /\ fnOut = <<>>
    /\ nCalls = 0

\* Thread 1 logs its records and, at some point between two log calls, calls
\* SetState(THREADED_LOG, false).
NextMode ==
    \/ LogCustom_colorStack(1, "INFO", <<Msg(1, sent[1] + 1)>>, <<>>, "default")
    \/ PushLogTask_emplace(1)
    \/ ConsoleSteps(1) \/ FileSteps(1)
    \/ WorkerStep \/ FileSteps(Worker) \/ Worker_spurious
    \/ SetState_threaded(1, FALSE)
    \/ StopLoggerThread_check(1) \/ StopLoggerThread_clear(1)
    \/ StopLoggerThread_request(1) \/ StopLoggerThread_notify(1)
    \/ Thread_join(1)
    \/ SetState_unlock(1)

SpecMode == InitMode /\ [][NextMode]_vars

\* ------------------------------------------------- the buffering flags
\* From the configuration the program starts with, the console and the
\* buffering flags are set and cleared between the log calls of a thread.
BufferingStates ==
    {"TERMINAL_LOG", "BUFFER_LOG", "BUFFER_LOG_LABEL", "BUFFER_FILE_LOG",
     "BUFFER_FILE_LOG_LABEL"}

NextBuffering ==
    \/ \E state \in BufferingStates, isEnabled \in BOOLEAN :
          pc[1] = "idle" /\ SetState(Ctl, state, isEnabled)
    \/ LogCustom(1, "INFO", "default")
    \/ ConsoleSteps(1) \/ BufferSteps(1)

SpecBuffering == InitAsync /\ [][NextBuffering]_vars

\* ================================================================== claims
\* the complete lines of a stream, and the tokens after its last "\n"
LineEnds(data) == {i \in 1..Len(data) : data[i] = "\n"}
LineEnd(data, j) ==
    CHOOSE i \in LineEnds(data) : Cardinality({x \in LineEnds(data) : x < i}) = j - 1
Lines(data) ==
    [j \in 1..Cardinality(LineEnds(data)) |->
        SubSeq(data, IF j = 1 THEN 1 ELSE LineEnd(data, j - 1) + 1, LineEnd(data, j))]
Partial(data) ==
    SubSeq(data, Len(data) - Cardinality({i \in 1..Len(data) :
                     \A x \in LineEnds(data) : x < i}) + 1, Len(data))

\* the number of lines that carry the message m
LinesWith(m, lines) == Cardinality({i \in 1..Len(lines) : m \in Range(lines[i])})
LabelLinesWith(m, map, label) ==
    IF label \in DOMAIN map THEN LinesWith(m, map[label]) ELSE 0

\* the k-th log call of thread t has returned
Completed(t, k) == k < sent[t] \/ (k = sent[t] /\ pc[t] = "idle")
\* thread t has just returned from the log call of record cur[t]
JustLogged(t) == pc[t] = "idle" /\ sent[t] > 0
AllLogged == \A t \in Callers : sent[t] = NumRecords /\ pc[t] = "idle"

\* the line FileLogImpl::log renders for the k-th record of thread t in SpecSync
FileLineOf(t, k) ==
    fillLogBuffer(StateData, LogLevels, makeTask("DEBUG", <<Msg(t, k)>>, "default"), TRUE)

\* C1: NumThreads threads that each log NumRecords records synchronously to
\* the same file handle leave exactly NumThreads * NumRecords lines in it, and
\* every line in the file is the complete rendered line of one record: the
\* tokens of two records never mix inside a line.
C1_FileLinesWhole ==
    LET data == DefaultFileLogger.data
        lines == Lines(data)
    IN
    /\ \A i \in 1..Len(lines) :
         \E t \in Callers : \E k \in 1..sent[t] : lines[i] = FileLineOf(t, k)
    /\ AllLogged =>
         /\ Len(lines) = NumThreads * NumRecords
         /\ Partial(data) = <<>>
         /\ \A t \in Callers : \A k \in 1..NumRecords :
              Count(FileLineOf(t, k), lines) = 1

C1_Witness ==
    /\ AllLogged
    /\ StateData.IsFileLogEnabled
    /\ Len(Lines(DefaultFileLogger.data)) = NumThreads * NumRecords
    /\ Lines(DefaultFileLogger.data)[1] = FileLineOf(2, 1)

\* C8: one dispatch writes exactly one line to the console iff TERMINAL_LOG is
\* set and exactly one line to the active file handle iff FILE_LOG is set, for
\* every combination of the flags.
C8_OncePerEnabledSink ==
    \A k \in 1..NumRecords :
        Completed(1, k) =>
            /\ LinesWith(Msg(1, k), Lines(console)) =
                   (IF StateData.IsConsoleLogEnabled THEN 1 ELSE 0)
            /\ LinesWith(Msg(1, k), Lines(Handle(ActiveFileLogger(StateData, FileLoggers)).data)) =
                   (IF StateData.IsFileLogEnabled THEN 1 ELSE 0)
            /\ pc[1] = "idle" =>
                 Partial(console) = <<>> /\ Partial(DefaultFileLogger.data) = <<>>

C8_Witness ==
    /\ Completed(1, 1)
    /\ StateData.IsConsoleLogEnabled /\ ~StateData.IsFileLogEnabled
    /\ Len(Lines(console)) = 1 /\ DefaultFileLogger.data = <<>>

\* C9: with BUFFER_LOG set a dispatched record appends exactly one line to the
\* global console buffer, and with BUFFER_LOG_LABEL set exactly one line to
\* the console buffer keyed by its label; both set: once in each.
C9_ConsoleBuffersOnce ==
    JustLogged(1) =>
        /\ StateData.BufferLog => LinesWith(cur[1].msg[1], mLogBuffer) = 1
        /\ StateData.BufferLogLabel =>
             LabelLinesWith(cur[1].msg[1], mLogBufferLabel, cur[1].label) = 1

\* C10: a dispatched record is appended to the global file buffer iff
\* BUFFER_FILE_LOG is set and to the file buffer keyed by its label iff
\* BUFFER_FILE_LOG_LABEL is set, whatever BUFFER_LOG and BUFFER_LOG_LABEL are.
C10_FileBuffersOwnFlags ==
    JustLogged(1) =>
        /\ LinesWith(cur[1].msg[1], mFileLogBuffer) =
               (IF StateData.BufferFileLog THEN 1 ELSE 0)
        /\ LabelLinesWith(cur[1].msg[1], mFileLogBufferLabel, cur[1].label) =
               (IF StateData.BufferFileLogLabel THEN 1 ELSE 0)


\* the messages of the tasks in the queue
MsgsOf(tasks) == [i \in 1..Len(tasks) |-> tasks[i].msg[1]]
TaskMsgs == {Msg(p, k) : p \in Producers, k \in 1..MaxTasks}
Position(x, s) == CHOOSE i \in 1..Len(s) : s[i] = x

C3_DispatchInEnqueueOrder ==
    /\ \A i, j \in 1..Len(dispatched) :
         i < j => Position(dispatched[i], pushed) < Position(dispatched[j], pushed)
    /\ \A i \in 1..Len(Lines(console)) : dispatched[i] \in Range(Lines(console)[i])

C3_Witness ==
    /\ Len(dispatched) >= 2
    /\ dispatched[1] = Msg(2, 1) /\ dispatched[2] = Msg(1, 1)
    /\ Len(Lines(console)) = 2

\* C4: after tasks are enqueued on a running worker, WaitLoggerThread (with
\* no thread calling Stop) eventually returns, and when it returns every
\* enqueued task has been dispatched, in enqueue order.
C4_WaitDrainsAndReturns ==
    /\ (pc[Ctl] = "wait_join") ~> (pc[Ctl] # "wait_join")
    /\ [][pc[Ctl] = "wait_join" /\ pc'[Ctl] # "wait_join" => dispatched' = pushed']_vars

\* C5: StopLoggerThread, called while the worker is running, returns in every
\* interleaving with the worker loop: the worker exits and the join ends.
C5_StopReturns ==
    (pc[Ctl] = "stop_join") ~> (pc[Ctl] # "stop_join")

\* C6: StartLoggerThread on a running worker and StopLoggerThread on a stopped
\* one change nothing and return at once: no thread is started or stopped, the
\* running flag, the thread handle and the queue stay as they are.
C6_StartStopIdempotent ==
    [][/\ (pc[Ctl] = "start_check" /\ pc'[Ctl] # "start_check" /\ mIsRunning) =>
            /\ pc'[Ctl] = CtlReturn(Ctl)
            /\ UNCHANGED <<mIsRunning, mIsFinished, mThread, mLogTasks, ThreadLog_mtx>>
            /\ pc'[Worker] = pc[Worker]
       /\ (pc[Ctl] = "stop_check" /\ pc'[Ctl] # "stop_check" /\ ~mIsRunning) =>
            /\ pc'[Ctl] = CtlReturn(Ctl)
            /\ UNCHANGED <<mIsRunning, mIsFinished, mThread, mLogTasks, ThreadLog_mtx>>
            /\ pc'[Worker] = pc[Worker]
      ]_vars

C6_Witness ==
    /\ {"start_noop", "stop_noop"} \subseteq obs
    /\ pc[Ctl] = "idle"

\* C7: AddLogLevel and AddCustomFileLogger insert only when the name is
\* absent: they return true and add the entry iff the name was not registered;
\* for a registered name (a built-in level too) they return false and leave
\* that entry and every other entry as they were.
C7_InsertIfAbsent ==
    [][/\ \A n \in RegLevels, col \in LevelColors :
            AddLogLevel(n, col) =>
               /\ retval' = (n \notin DOMAIN LogLevels)
               /\ n \in DOMAIN LogLevels => LogLevels' = LogLevels
               /\ n \notin DOMAIN LogLevels =>
                    /\ DOMAIN LogLevels' = DOMAIN LogLevels \cup {n}
                    /\ LogLevels'[n] = col
                    /\ \A x \in DOMAIN LogLevels : LogLevels'[x] = LogLevels[x]
               /\ UNCHANGED fileVars
       /\ \A n \in LoggerNames, p \in Paths, m \in OpenModes :
            AddCustomFileLogger(n, p, m) =>
               /\ retval' = (n \notin DOMAIN FileLoggers)
               /\ n \in DOMAIN FileLoggers => FileLoggers' = FileLoggers
               /\ n \notin DOMAIN FileLoggers =>
                    /\ DOMAIN FileLoggers' = DOMAIN FileLoggers \cup {n}
                    /\ FileLoggers'[n].mPath = p /\ FileLoggers'[n].mOpenMode = m
                    /\ \A x \in DOMAIN FileLoggers : FileLoggers'[x] = FileLoggers[x]
               /\ UNCHANGED <<LogLevels, DefaultFileLogger>>
      ]_vars

C7_Witness ==
    /\ {"level_dup", "logger_dup"} \subseteq obs
    /\ ~retval
    /\ \E n \in DOMAIN FileLoggers : FileLoggers[n].data # <<>>
    /\ "AUDIT" \in DOMAIN LogLevels

\* the escape sequences of the palette
Escapes == {AsciiColors(c) : c \in ColorEnum}
HasEscape(text) == \E i \in 1..Len(text) : text[i] \in Escapes

\* the message with the ColorizeRange list of the record applied
ColoredMsg == createColorizedString(StateData, fnIn.msg, fnIn.colorStack).str
\* the line of the record whose message had its ColorizeRange list applied
ColoredLine(file) ==
    fillLogBuffer(StateData, LogLevels,
                  makeTask("INFO", ColoredMsg, "default"), file)

\* C11: on both delivery paths the ColorizeRange list is applied to the
\* message before rendering, so for the same record and configuration every
\* line a sink receives is the same line in synchronous and in async mode: the
\* rendering of the colorized message.
C11_SameLineBothPaths ==
    /\ \A i \in 1..Len(Lines(console)) : Lines(console)[i] = ColoredLine(FALSE)
    /\ \A i \in 1..Len(Lines(DefaultFileLogger.data)) :
         Lines(DefaultFileLogger.data)[i] \in {ColoredLine(TRUE), ColoredLine(FALSE)}

\* C12: no line written to a file sink contains an escape sequence, in
\* synchronous and in async mode, for records with a ColorizeRange list too.
C12_FileLinesPlain ==
    /\ ~HasEscape(DefaultFileLogger.data)
    /\ \A n \in DOMAIN FileLoggers : ~HasEscape(FileLoggers[n].data)

\* C13: while COLORLESS is set nothing written to the console contains an
\* escape sequence: neither the level tag, nor the metadata block, nor the
\* message of a record that carries a ColorizeRange list.
C13_ColorlessConsolePlain ==
    StateData.COLORLESS => ~HasEscape(console)

\* COLORLESS is set and the worker has written the line of a record whose
\* first range has a standalone match in the message
C13_Witness ==
    /\ StateData.COLORLESS /\ StateData.ThreadedLog
    /\ dispatched # <<>>
    /\ Len(Lines(console)) >= 1
    /\ fnIn.colorStack # <<>>
    /\ findStandaloneNextMatchPosition(fnIn.msg, fnIn.colorStack[1].str, 0, NUL) # npos

\* a named logger is selected: UseFileLogger was called with a registered name
Selected == StateData.FileLoggerName \in DOMAIN FileLoggers
\* this step writes to the file handle with the given key
WritesTo(key) ==
    IF key = "" THEN DefaultFileLogger'.data # DefaultFileLogger.data
    ELSE FileLoggers'[key].data # FileLoggers[key].data

InCallOrder(lines) ==
    \A t \in Callers : \A k1, k2 \in 1..NumRecords : \A i, j \in 1..Len(lines) :
        (k1 < k2 /\ Msg(t, k1) \in Range(lines[i]) /\ Msg(t, k2) \in Range(lines[j]))
            => i < j
LabelBuffer(map) == IF "default" \in DOMAIN map THEN map["default"] ELSE <<>>
\* a record whose log call has returned is in every sink that is switched on
InSinks(m) ==
    /\ StateData.IsConsoleLogEnabled => LinesWith(m, Lines(console)) >= 1
    /\ StateData.IsFileLogEnabled => LinesWith(m, Lines(DefaultFileLogger.data)) >= 1
    /\ StateData.BufferLog => LinesWith(m, mLogBuffer) >= 1
    /\ StateData.BufferLogLabel => LinesWith(m, LabelBuffer(mLogBufferLabel)) >= 1

\* C15: in each sink the lines of records that one thread logged synchronously
\* stand in the order of that thread's calls, whatever the other threads do;
\* a record is in the sink once its call has returned.
C15_CallOrderPerSink ==
    /\ InCallOrder(Lines(console))
    /\ InCallOrder(Lines(DefaultFileLogger.data))
    /\ InCallOrder(mLogBuffer) /\ InCallOrder(mFileLogBuffer)
    /\ InCallOrder(LabelBuffer(mLogBufferLabel))
    /\ InCallOrder(LabelBuffer(mFileLogBufferLabel))
    /\ \A t \in Callers : \A k \in 1..NumRecords : Completed(t, k) => InSinks(Msg(t, k))

\* all records are logged to the buffers, a record of thread 2 between two
\* records of thread 1
C15_Witness ==
    /\ AllLogged /\ StateData.BufferLogLabel
    /\ Len(LabelBuffer(mLogBufferLabel)) = NumThreads * NumRecords
    /\ Msg(1, 1) \in Range(LabelBuffer(mLogBufferLabel)[1])
    /\ Msg(2, 1) \in Range(LabelBuffer(mLogBufferLabel)[2])
    /\ Msg(1, 2) \in Range(LabelBuffer(mLogBufferLabel)[3])

\* the field of State::Impl::Data that a flag of StateEnum names
FieldOf(f) ==
    CASE f = "TERMINAL_LOG" -> "IsConsoleLogEnabled"
      [] f = "FILE_LOG" -> "IsFileLogEnabled"
      [] f = "DEFAULT_FILE_LOG" -> "UseDefaultFileLog"
      [] f = "DIRECT_FLUSH" -> "DirectFlush"
      [] f = "BUFFER_LOG" -> "BufferLog"
      [] f = "BUFFER_LOG_LABEL" -> "BufferLogLabel"
      [] f = "BUFFER_FILE_LOG" -> "BufferFileLog"
      [] f = "BUFFER_FILE_LOG_LABEL" -> "BufferFileLogLabel"
      [] f = "THREADED_LOG" -> "ThreadedLog"
      [] f = "USE_DATE" -> "UseDate"
      [] f = "USE_TIME" -> "UseTime"
      [] f = "USE_FILE" -> "UseFile"
      [] f = "USE_FUNCTION" -> "UseFunction"
      [] f = "USE_LINE" -> "UseLine"
      [] OTHER -> "COLORLESS"
BufferingFlags ==
    {"BUFFER_LOG", "BUFFER_LOG_LABEL", "BUFFER_FILE_LOG", "BUFFER_FILE_LOG_LABEL"}
\* a step in which SetState assigns a flag: every flag but f keeps its value
\* (BufferLogEnabled is derived), f takes the value v
OnlyFlagChanged(f, v) ==
    /\ StateData'[FieldOf(f)] = v
    /\ \A x \in DOMAIN StateData \ {FieldOf(f), "BufferLogEnabled"} :
         StateData'[x] = StateData[x]
    /\ StateData'.BufferLogEnabled =
         (IF f \in BufferingFlags
          THEN \E g \in BufferingFlags : StateData'[FieldOf(g)]
          ELSE StateData.BufferLogEnabled)
    /\ UNCHANGED <<LogLevels, sinkVars, mLogTasks>>

\* C16: SetState(f, v) sets flag f to v and leaves every other flag, the
\* selected file logger name and the contents of all sinks as they are; the
\* derived BufferLogEnabled follows the four buffering flags, and for
\* THREADED_LOG the worker is started or stopped by the same call.
C16_SetStateOneFlag ==
    [][/\ \A f \in StateEnum \ {"THREADED_LOG"} : \A v \in BOOLEAN :
            SetState(Ctl, f, v) =>
               /\ OnlyFlagChanged(f, v)
               /\ UNCHANGED <<mIsRunning, mThread>> /\ pc'[Worker] = pc[Worker]
       /\ \A v \in BOOLEAN :
            SetState_threaded(Ctl, v) =>
               /\ OnlyFlagChanged("THREADED_LOG", v)
               /\ pc'[Ctl] = (IF v THEN "start_check" ELSE "stop_check")
       /\ StartStopStep(Ctl) => UNCHANGED <<StateData, LogLevels, sinkVars, mLogTasks>>
      ]_vars

\* lines are in the console and in the buffer, and flags were changed:
\* BUFFER_LOG switched off, so that no buffering flag is left
C16_Witness ==
    /\ nCalls = MaxSetStates
    /\ Len(Lines(console)) >= 1 /\ mLogBuffer # <<>>
    /\ ~StateData.BufferLog /\ ~StateData.BufferLogEnabled
    /\ StateData.COLORLESS

\* the position of the separator that follows the level tag
TagEnd(line) == CHOOSE i \in 1..Len(line) : line[i] = "\t: "
\* the segment '[label] ' stands at position i of the line
LabelSegmentAt(line, label, i) ==
    /\ i + 3 <= Len(line)
    /\ line[i] = "[" /\ line[i + 1] = label /\ line[i + 2] = "]"
    /\ line[i + 3] \in {" ", " : "}
\* the text that follows a label segment, or the level tag if there is none
AfterLabel(line, labelled) ==
    LET i == TagEnd(line) + (IF labelled THEN 4 ELSE 1) IN
    IF labelled /\ line[i] = " " THEN SubSeq(line, i + 1, Len(line))
    ELSE SubSeq(line, i, Len(line))
LabelRendered(line, S, rec, file) ==
    /\ rec.label # "default" <=> LabelSegmentAt(line, rec.label, TagEnd(line) + 1)
    /\ rec.label = "default" =>
          ~\E i \in 1..Len(line) : \E lb \in Labels : LabelSegmentAt(line, lb, i)
    /\ AfterLabel(line, rec.label # "default")
          = getFmtLogInfo(S, ~file) \o <<" : ">> \o rec.msg \o <<"\n">>

\* C17: the rendered line has the segment '[label] ' between the level tag and
\* the metadata block iff the label of the record is not "default"; the line
\* of an unlabeled record has no label segment and no brackets for one.
C17_LabelSegment ==
    fnIn # <<>> =>
        /\ LabelRendered(fnOut.console, StateData, fnIn, FALSE)
        /\ LabelRendered(fnOut.file, StateData, fnIn, TRUE)

\* a labeled record has been rendered with every include flag off: the space
\* after its label segment is the one that begins the separator " : "
C17_Witness ==
    /\ fnIn # <<>> /\ fnIn.label = "net" /\ ~UseFormat(StateData)
    /\ LabelSegmentAt(fnOut.file, "net", TagEnd(fnOut.file) + 1)

\* the enabled metadata fields in their order, joined by " | "
FieldOrder == <<"date", "time", "file", "function", "line">>
FlagOfField(f) ==
    CASE f = "date" -> "UseDate" [] f = "time" -> "UseTime"
      [] f = "file" -> "UseFile" [] f = "function" -> "UseFunction"
      [] OTHER -> "UseLine"
RECURSIVE Joined(_, _)
Joined(S, i) ==
    IF i > Len(FieldOrder) THEN <<>>
    ELSE LET rest == Joined(S, i + 1) IN
         IF ~S[FlagOfField(FieldOrder[i])] THEN rest
         ELSE IF rest = <<>> THEN <<FieldOrder[i]>>
         ELSE <<FieldOrder[i], " | ">> \o rest
ExpectedBlock(S) ==
    IF Joined(S, 1) = <<>> THEN <<>> ELSE <<"[">> \o Joined(S, 1) \o <<"]">>
\* the metadata block of a line: what stands between the label segment, or the
\* level tag, and the separator before the message, escape sequences left out
MsgSep(line) == CHOOSE i \in 1..Len(line) : line[i] = " : " /\ line[i + 1] = Msg(1, 1)
MetaBlock(line, labelled) ==
    LET after == AfterLabel(line, labelled)
        n == MsgSep(line) - (Len(line) - Len(after)) - 1
    IN SelectSeq(SubSeq(after, 1, n), LAMBDA x : x \notin Escapes)

\* C18: under every combination of the five include flags the metadata block
\* is exactly the enabled fields in the order date, time, file, function, line,
\* joined by " | " inside one pair of brackets, without a leading or trailing
\* separator; with all five flags clear there is no block and no brackets.
C18_MetadataBlock ==
    fnIn # <<>> =>
        /\ MetaBlock(fnOut.console, fnIn.label # "default") = ExpectedBlock(StateData)
        /\ MetaBlock(fnOut.file, fnIn.label # "default") = ExpectedBlock(StateData)

\* the level tag of a line: what stands before the separator "\t: "
LevelTag(line) == SubSeq(line, 1, TagEnd(line) - 1)
\* the level name a record is rendered with
TagName(LL, level) == IF level \in DOMAIN LL THEN level ELSE "UNKNOWN"

\* C19: a level name that is not registered is rendered as the 7 characters
\* UNKNOWN, in the console line wrapped in BOLD_WHITE and the reset sequence,
\* in the file line plain, the same characters in both; a registered name is
\* rendered as the name itself.
C19_UnknownTag ==
    fnIn # <<>> =>
        /\ LevelTag(fnOut.file) = <<TagName(LogLevels, fnIn.level)>>
        /\ SelectSeq(LevelTag(fnOut.console), LAMBDA x : x \notin Escapes)
              = <<TagName(LogLevels, fnIn.level)>>
        /\ (fnIn.level \notin DOMAIN LogLevels /\ ~StateData.COLORLESS) =>
              LevelTag(fnOut.console)
                  = <<AsciiColors("BOLD_WHITE"), "UNKNOWN", ResetColor>>

\* position i of the text is a boundary: before the start, past the end, or a
\* punctuation or whitespace character
Boundary(str, i) == i < 0 \/ i >= Len(str) \/ isCharPunctuationMark(str[i + 1])
\* match occurs standalone at position p of the text
Standalone(str, match, p) ==
    /\ p >= 0 /\ p + Len(match) <= Len(str)
    /\ SubSeq(str, p + 1, p + Len(match)) = match
    /\ Boundary(str, p - 1) /\ Boundary(str, p + Len(match))
SmallestStandalone(str, match, cursor) ==
    LET ps == {p \in cursor..Len(str) : Standalone(str, match, p)}
    IN IF ps = {} THEN npos ELSE CHOOSE p \in ps : \A q \in ps : p <= q

\* C20: findStandaloneNextMatchPosition(str, target, cursor) returns the
\* smallest position p >= cursor at which target occurs standalone, the start
\* and the end of the string counting as boundaries, and reports no match iff
\* there is no such position.
C20_SmallestStandalone ==
    fnOut # <<>> => fnOut[1] = SmallestStandalone(fnIn.str, fnIn.match, fnIn.pos)

\* the text with its standalone occurrences of match wrapped, from position
\* from on and from left to right: all of them, or the first one only
RECURSIVE WrapStandalone(_, _, _, _)
WrapStandalone(str, match, from, all) ==
    LET p == SmallestStandalone(str, match, from) IN
    IF p = npos THEN SubSeq(str, from + 1, Len(str))
    ELSE SubSeq(str, from + 1, p) \o Wrapped(match)
         \o (IF all THEN WrapStandalone(str, match, p + Len(match), TRUE)
             ELSE SubSeq(str, p + Len(match) + 1, Len(str)))

\* C21: Replace with replaceAll wraps every standalone occurrence of the target
\* exactly once, without replaceAll only the first one; occurrences that are
\* not standalone and all other characters stay as they are, in their order.
C21_ReplaceWrapsStandalone ==
    fnOut # <<>> =>
        /\ fnOut.ok
        /\ fnOut.str = WrapStandalone(fnIn.str, fnIn.match, 0, fnIn.replaceAllMatching)

\* a range whose target has a standalone occurrence in the text
HasStandalone(str, match) == SmallestStandalone(str, match, 0) # npos

\* C22: createColorizedString terminates without error for every base string
\* and every list of ranges, a range with an empty target and a range whose
\* target does not occur included; when no range of the list has a standalone
\* match the string is left unchanged.
C22_ColorizerNeverFails ==
    fnOut # <<>> =>
        /\ fnOut.ok
        /\ (\A i \in 1..Len(fnIn.colorStack) :
               ~HasStandalone(fnIn.msg, fnIn.colorStack[i].str))
              => fnOut.str = fnIn.msg

\* the ranges of a list that setColor registers, and their replacements
Registered(stack) ==
    SelectSeq(stack, LAMBDA r : ~(r.str = <<>> /\ r.color \notin ColorEnum))
Replacements(str, stack) == setColors(setContext(str), stack, 1).mReplaceStrings
\* where a range starts and ends in the base string
StartOf(str, r) == find(str, r.str, 0)
EndOf(str, r) == StartOf(str, r) + Len(r.str)
\* the closing color of the i-th registered range by the nesting rule
ClosingColor(str, rs, i) ==
    IF /\ i > 1
       /\ StartOf(str, rs[i]) # npos /\ StartOf(str, rs[i - 1]) # npos
       /\ StartOf(str, rs[i]) < EndOf(str, rs[i - 1])
    THEN AsciiColors(rs[i - 1].color)
    ELSE ResetColor
\* the list of the nesting example: A = "world" in RED, then B = "Hello world"
\* in BLUE with replaceAll
NestingExample ==
    <<colorize(SubSeq(HelloWorld, 7, 11), "RED", FALSE),
      colorize(SubSeq(HelloWorld, 1, 11), "BLUE", TRUE)>>
\* somewhere in the text the target stands between the two escape sequences
SpanColored(text, target, color, closing) ==
    \E i \in 1..Len(text) :
        /\ i + Len(target) + 1 <= Len(text)
        /\ text[i] = color /\ text[i + Len(target) + 1] = closing
        /\ SelectSeq(SubSeq(text, i + 1, Len(text)), LAMBDA x : x \notin Escapes)
              = target \o SelectSeq(SubSeq(text, i + Len(target) + 2, Len(text)),
                                    LAMBDA x : x \notin Escapes)

\* C23: the replacement of each range is color + target + closingColor, where
\* closingColor is the color of the range before it when this range starts
\* before the end of that one, and the palette reset otherwise; for A then B
\* on "Hello world!" the span of B is colored and closed with the color of A.
C23_NestedClosing ==
    (fnOut # <<>> /\ fnOut.ok) =>
        LET rs == Registered(fnIn.colorStack)
            rp == Replacements(fnIn.msg, fnIn.colorStack)
        IN /\ Len(rp) = Len(rs)
           /\ \A i \in 1..Len(rs) :
                 rp[i].mReplaceString
                    = <<AsciiColors(rs[i].color)>> \o rs[i].str
                      \o <<ClosingColor(fnIn.msg, rs, i)>>
           /\ (fnIn.msg = HelloWorld /\ fnIn.colorStack = NestingExample) =>
                 SpanColored(fnOut.str, SubSeq(HelloWorld, 1, 11),
                             AsciiColors("BLUE"), AsciiColors("RED"))

\* the pieces of a template by kind
IndexOf(piece) ==
    CASE piece \in {"{0}", "{{0}}"} -> 0 [] piece = "{1}" -> 1 [] OTHER -> -1
Braced(piece) == piece \in {"{{0}}", "{{}}"}
EmptyKinds == {"{}", "{{}}"}
PositionsOf(pieces, kinds) == {j \in 1..Len(pieces) : pieces[j] \in kinds}
\* the text of a piece whose placeholder is replaced by val
Filled(piece, val) == IF Braced(piece) THEN <<"{">> \o val \o <<"}">> ELSE val
\* a template that holds each of the indices 0..n-1 once and no placeholder
\* of another kind
HoldsEachIndexOnce(pieces, n) ==
    /\ n >= 1
    /\ \A j \in 1..Len(pieces) : IndexOf(pieces[j]) # -1 \/ pieces[j] = ","
    /\ \A i \in 0..(n - 1) :
          Cardinality({j \in 1..Len(pieces) : IndexOf(pieces[j]) = i}) = 1
\* a template that holds n empty placeholders, all written "{}" or all
\* written "{ }", and no placeholder of another kind
HoldsEmpty(pieces, n) ==
    /\ n >= 1
    /\ \/ \A j \in 1..Len(pieces) : pieces[j] \in EmptyKinds \cup {","}
       \/ \A j \in 1..Len(pieces) : pieces[j] \in {"{ }", ","}
    /\ Cardinality(PositionsOf(pieces, EmptyKinds \cup {"{ }"})) = n
\* the rendering with {i} replaced by argument i
RECURSIVE ByIndex(_, _)
ByIndex(pieces, vals) ==
    IF pieces = <<>> THEN <<>>
    ELSE LET i == IndexOf(Head(pieces)) IN
         (IF i >= 0 /\ i < Len(vals) THEN Filled(Head(pieces), vals[i + 1])
          ELSE Chars(Head(pieces)))
         \o ByIndex(Tail(pieces), vals)
\* the rendering with the placeholders replaced from left to right, the next
\* one by argument k
RECURSIVE FromLeft(_, _, _)
FromLeft(pieces, vals, k) ==
    IF pieces = <<>> THEN <<>>
    ELSE IF Head(pieces) = "," \/ k > Len(vals)
         THEN Chars(Head(pieces)) \o FromLeft(Tail(pieces), vals, k)
         ELSE Filled(Head(pieces), vals[k]) \o FromLeft(Tail(pieces), vals, k + 1)
PositionalRendering ==
    /\ HoldsEachIndexOnce(fnIn.pieces, Len(fnIn.vals)) =>
          fnOut = [str |-> ByIndex(fnIn.pieces, fnIn.vals), ok |-> TRUE]
    /\ HoldsEmpty(fnIn.pieces, Len(fnIn.vals)) =>
          fnOut = [str |-> FromLeft(fnIn.pieces, fnIn.vals, 1), ok |-> TRUE]
NoLiteralBrace == \A j \in 1..Len(fnIn.pieces) : ~Braced(fnIn.pieces[j])

\* C24: for n arguments without a brace in their text, a template that holds
\* each index {0}..{n-1} once, in any order, is rendered with {i} replaced by
\* argument i, and a template that holds n empty placeholders is rendered with
\* the i-th placeholder from the left replaced by argument i.
C24_PositionalRendering == fnOut # <<>> => PositionalRendering

\* C24 as amended: the same for templates whose text outside the placeholders
\* holds no brace.
C24_PositionalNoLiteralBrace ==
    (fnOut # <<>> /\ NoLiteralBrace) => PositionalRendering

\* "{1},{0}" and "{},{}" have been rendered with two arguments
C24_Witness ==
    /\ fnOut # <<>> /\ fnIn.vals = <<<<"a">>, <<"1">>>>
    /\ fnIn.pieces = <<"{1}", ",", "{0}">>
    /\ fnOut.str = <<"1", ",", "a">>

\* the positions of the placeholders of a template
Placeholders(pieces) == {j \in 1..Len(pieces) : pieces[j] # ","}
\* the ways to give arguments to placeholders: g[i] is the position of the
\* placeholder that argument i replaces, 0 if it replaces none
Assignments(pieces, n) ==
    {g \in [1..n -> Placeholders(pieces) \cup {0}] :
        \A i, k \in 1..n : (i # k /\ g[i] # 0) => g[i] # g[k]}
RECURSIVE RenderedFrom(_, _, _, _)
RenderedFrom(pieces, vals, g, j) ==
    IF j > Len(pieces) THEN <<>>
    ELSE (IF \E i \in DOMAIN g : g[i] = j
          THEN Filled(pieces[j], vals[CHOOSE i \in DOMAIN g : g[i] = j])
          ELSE Chars(pieces[j]))
         \o RenderedFrom(pieces, vals, g, j + 1)
\* argument i replaces no placeholder only if every placeholder that is left
\* for it is an explicit index of another argument
LeftOutRightly(pieces, g, i) ==
    \A j \in Placeholders(pieces) \ {g[k] : k \in 1..(i - 1)} :
        IndexOf(pieces[j]) \notin {-1, i - 1}
MorePlaceholders == Cardinality(Placeholders(fnIn.pieces)) > Len(fnIn.vals)

HexDigitVal(c) ==
    IF \E d \in 1..16 : DigitChars[d] = c
    THEN (CHOOSE d \in 1..16 : DigitChars[d] = c) - 1 ELSE -1
RECURSIVE HexValue(_)
HexValue(text) ==
    IF text = <<>> THEN 0
    ELSE LET hi == HexValue(SubSeq(text, 1, Len(text) - 1))
             lo == HexDigitVal(text[Len(text)])
         IN IF hi < 0 \/ lo < 0 THEN -1 ELSE 16 * hi + lo
\* the number of hexadecimal digits of v
RECURSIVE HexLen(_)
HexLen(v) == IF v < 16 THEN 1 ELSE 1 + HexLen(v \div 16)
\* what Format returned without the text that follows the placeholder
Body(text, tail) == SubSeq(text, 1, Len(text) - Len(tail))
EndsWith(text, tail) ==
    Len(text) >= Len(tail) /\ SubSeq(text, Len(text) - Len(tail) + 1, Len(text)) = tail

\* C25: for every non-negative integer v and every precision p, "{:x<p>}"
\* yields "0x" and the uppercase hexadecimal digits of v, padded with zeros on
\* the left to p digits when p >= 1 and v has fewer, not padded otherwise; it
\* does not fail or truncate when v has more than p digits.
C25_HexRendering ==
    (fnOut # <<>> /\ fnIn.letter = "x" /\ IsNumber(fnIn.val)) =>
        LET v == FromDigits(fnIn.val)
            p == IF fnIn.precision = absent THEN 0 ELSE fnIn.precision
            body == Body(fnOut.str, fnIn.tail)
            digits == SubSeq(body, 3, Len(body))
        IN /\ fnOut.ok
           /\ EndsWith(fnOut.str, fnIn.tail)
           /\ Len(body) >= 3 /\ SubSeq(body, 1, 2) = <<"0", "x">>
           /\ HexValue(digits) = v
           /\ Len(digits) = (IF p > HexLen(v) THEN p ELSE HexLen(v))

\* C26: "{:f<p>}" renders the decimal text of the argument with exactly p
\* digits after the decimal point, padded with zeros or truncated, p being 6
\* when no precision is given, for every argument text.
C26_FloatRendering ==
    (fnOut # <<>> /\ fnIn.letter = "f") =>
        LET p == IF fnIn.precision = absent THEN 6 ELSE fnIn.precision
            body == Body(fnOut.str, fnIn.tail)
            dot == find(body, <<".">>, 0)
            vdot == find(fnIn.val, <<".">>, 0)
            whole == IF vdot = npos THEN fnIn.val ELSE SubSeq(fnIn.val, 1, vdot)
            frac == IF vdot = npos THEN <<>>
                    ELSE SubSeq(fnIn.val, vdot + 2, Len(fnIn.val))
        IN /\ fnOut.ok
           /\ EndsWith(fnOut.str, fnIn.tail)
           /\ dot # npos
           /\ SubSeq(body, 1, dot) = whole
           /\ Len(body) - (dot + 1) = p
           /\ \A k \in 1..p :
                 body[dot + 1 + k] = (IF k <= Len(frac) THEN frac[k] ELSE "0")

\* a is a prefix of b; every buffer of map a is a prefix of its buffer in b
IsPrefix(a, b) == Len(a) <= Len(b) /\ SubSeq(b, 1, Len(a)) = a
MapPrefix(a, b) ==
    \A l \in DOMAIN a : l \in DOMAIN b /\ IsPrefix(a[l], b[l])

\* C28: without a Clear call no step loses or reorders what a buffer holds:
\* what each buffer held before the step is a prefix of what it holds after
\* it, also when it grows beyond the capacity set by setDefaultBufferSize.
C28_BuffersOnlyGrow ==
    [][/\ IsPrefix(mLogBuffer, mLogBuffer')
       /\ IsPrefix(mFileLogBuffer, mFileLogBuffer')
       /\ MapPrefix(mLogBufferLabel, mLogBufferLabel')
       /\ MapPrefix(mFileLogBufferLabel, mFileLogBufferLabel')]_vars

\* the capacity was set with setDefaultBufferSize and the buffers have grown
\* beyond it and beyond what was reserved
C28_Witness ==
    /\ capacity.BufferSize = MaxCapacity
    /\ Len(mLogBuffer) > MaxCapacity + 1
    /\ capacity.mLogBuffer > MaxCapacity
    /\ "net" \in DOMAIN mLogBufferLabel
    /\ Len(mLogBufferLabel["net"]) > MaxCapacity

\* C29: whatever the interleaving of StartLoggerThread, StopLoggerThread and
\* SetState(THREADED_LOG, .) calls of several threads, at most one worker
\* thread is alive at any instant and no two callers join the same thread.
C29_OneWorkerOneJoiner ==
    /\ Cardinality(Alive) <= 1
    /\ \A c, d \in Callers :
          c # d /\ jthreads.joins[c] # 0 => jthreads.joins[c] # jthreads.joins[d]

\* the sink mutexes thread t holds: console, buffers, default and named files
SinkMutexesHeld(t) ==
    (IF t \in LogImpl_mtx THEN {"console"} ELSE {})
    \cup (IF t \in LogBuffer_mtx THEN {"buffers"} ELSE {})
    \cup (IF t \in DefaultFileLogger.mtx THEN {"file"} ELSE {})
    \cup {name \in DOMAIN FileLoggers : t \in FileLoggers[name].mtx}

\* C30: a dispatching thread holds at most one sink mutex (the console's, a
\* file handle's, the buffers') at any instant; each is released before the
\* next sink is written.
C30_OneSinkMutex ==
    \A t \in Threads : Cardinality(SinkMutexesHeld(t)) <= 1

\* a thread holds the buffers mutex after it has written the console and the
\* file, while another thread holds the console mutex
C30_Witness ==
    \E t, u \in Callers :
       /\ SinkMutexesHeld(t) = {"buffers"}
       /\ SinkMutexesHeld(u) = {"console"}
       /\ console # <<>>
       /\ DefaultFileLogger.data # <<>>

\* the positions of a thread inside a sink: LogImpl::log, FileLogImpl::log,
\* LogBufferImpl::log and fileLog
SinkPositions ==
    {"con_lock", "con_write", "con_unlock", "file_lock", "file_open", "file_write",
     "file_unlock", "buf_lock", "buf_log", "fbuf_lock", "fbuf_log"}

\* C31: the worker takes exactly one task from the queue per iteration and
\* gives the queue mutex back before it dispatches the task: while the queue
\* mutex is held no thread is inside a sink or holds a sink mutex, so
\* PushLogTask waits for no sink and for no queue length.
C31_QueueMutexNotHeldInSink ==
    /\ [](\A t \in Threads :
            t \in ThreadLog_mtx =>
               pc[t] \notin SinkPositions /\ SinkMutexesHeld(t) = {})
    /\ [][mLogTasks' # mLogTasks /\ Len(mLogTasks') <= Len(mLogTasks) =>
            /\ mLogTasks' = Tail(mLogTasks)
            /\ pc'[Worker] \in SinkPositions \cup {"crashed"}
            /\ ThreadLog_mtx' = {}
            /\ cur'[Worker].msg = Head(mLogTasks).msg]_vars

\* the worker, having taken a task, writes the console and holds the console
\* mutex while a producer holds the queue mutex
C31_Witness ==
    /\ pc[Worker] = "con_write"
    /\ SinkMutexesHeld(Worker) = {"console"}
    /\ dispatched # <<>>
    /\ \E t \in Producers : ThreadLog_mtx = {t} /\ pc[t] = "push_emplace"

\* StopLoggerThread has returned (or was never called) and no Start has set
\* the running flag since
Stopped ==
    /\ ~mIsRunning
    /\ pc[Ctl] \notin {"stop_request", "stop_notify", "stop_join"}

\* C32: StopLoggerThread does not drain the queue: it returns while tasks are
\* queued; from its return until the next Start no record is dispatched and
\* the queued tasks stay in the queue in their order; a worker started later
\* dispatches them (unless it is stopped again first).
C32_StopDoesNotDrain ==
    /\ [][Stopped => /\ dispatched' = dispatched
                     /\ IsPrefix(mLogTasks, mLogTasks')]_vars
    /\ \A t \in Producers, n \in 1..MaxTasks :
          (/\ mIsRunning /\ ~mThread.stop /\ pc[Worker] \notin {"none", "exited"}
           /\ \E i \in 1..Len(mLogTasks) : mLogTasks[i].msg = <<Msg(t, n)>>)
          ~> (Msg(t, n) \in Range(dispatched) \/ mThread.stop)

\* Stop has returned, the worker has exited, and a task is still queued
C32_Witness ==
    /\ Stopped
    /\ pc[Ctl] = "idle"
    /\ pc[Worker] = "exited"
    /\ mLogTasks # <<>>

\* C33: every access to a buffer container (the appends of dispatch, the
\* Clear* and Get* calls, setDefaultBufferSize) is made while the buffers
\* mutex is held, so no two threads access a buffer container at once.
C33_BuffersUnderOneMutex ==
    /\ \A t \in Threads : Accessing(t) # {} => t \in LogBuffer_mtx
    /\ \A t, u \in Threads : t # u => Accessing(t) \cap Accessing(u) = {}

\* C34: every operation on a file handle's stream or path (open, write and
\* flush of dispatch, close of CloseStream, the path change of
\* SetDefaultFileLogPath) is made while that handle's mutex is held, so that
\* no close or path change happens while a write's open-write-flush runs.
C34_HandleUnderItsMutex ==
    /\ [](\A t \in Threads : \A key \in HandlesUsed(t) : Handle(key).mtx = {t})
    /\ [][\A t \in Threads :
            pc[t] \in {"file_open", "file_write", "file_unlock"} /\ pc'[t] = pc[t] =>
               /\ Handle(hkey[t]).isOpen' = Handle(hkey[t]).isOpen
               /\ Handle(hkey[t]).mPath' = Handle(hkey[t]).mPath]_vars

\* C35: after any sequence of SetState, StartLoggerThread and
\* StopLoggerThread calls the ThreadedLog flag is set iff the worker is
\* running, so that the enqueue path always has a worker and no call is
\* dispatched on the caller's thread while the worker runs.
C35_FlagMatchesWorker ==
    pc[Ctl] = "idle" => (StateData.ThreadedLog <=> mIsRunning)

\* C35, for SetState alone: when SetState(THREADED_LOG, b) returns, the flag
\* and the running state both are b.
C35_FlagMatchesAfterSetState ==
    [][pc[Ctl] = "ss_unlock" /\ pc'[Ctl] = "idle" =>
           StateData.ThreadedLog = mIsRunning]_vars

\* SetState(THREADED_LOG, false) is about to return after it has stopped a
\* worker that SetState(THREADED_LOG, true) or StartLoggerThread had started
C35_Witness ==
    /\ pc[Ctl] = "ss_unlock"
    /\ ~StateData.ThreadedLog /\ ~mIsRunning
    /\ pc[Worker] = "exited"

\* thread 1 has logged its first record while the mode was asynchronous and
\* its second record, after SetState(THREADED_LOG, false), synchronously, and
\* the second record is in the sink
SwitchedBetween(sink) ==
    /\ Msg(1, 1) \in Range(pushed)
    /\ Msg(1, 2) \notin Range(pushed)
    /\ Msg(1, 2) \in Range(sink)
FirstBeforeSecond(sink) ==
    /\ Msg(1, 1) \in Range(sink)
    /\ Position(Msg(1, 1), sink) < Position(Msg(1, 2), sink)

\* C36: when a thread logs A in asynchronous mode, calls
\* SetState(THREADED_LOG, false) and logs B synchronously, A's line is in
\* every enabled sink before B's line.
C36_CallOrderAcrossSwitch ==
    \A sink \in {console, DefaultFileLogger.data} :
        SwitchedBetween(sink) => FirstBeforeSecond(sink)

\* C36, with the queue left as Stop leaves it: A's line is before B's line in
\* the sink, or A is still queued and is not in the sink.
C36_BeforeOrStillQueued ==
    \A sink \in {console, DefaultFileLogger.data} :
        SwitchedBetween(sink) =>
            \/ FirstBeforeSecond(sink)
            \/ /\ Msg(1, 1) \notin Range(sink)
               /\ Msg(1, 1) \in Range(MsgsOf(mLogTasks))

\* A was dispatched by the worker before the switch, B was logged after it,
\* and both sinks hold A's line before B's line
C36_Witness ==
    /\ SwitchedBetween(console) /\ FirstBeforeSecond(console)
    /\ SwitchedBetween(DefaultFileLogger.data)
    /\ FirstBeforeSecond(DefaultFileLogger.data)
    /\ ~StateData.ThreadedLog
    /\ pc[1] = "idle"

\* C37: IsLoggerThreadRunning() and IsLoggerThreadFinished() are never both
\* true: the finished flag is true only while no worker runs, and after a
\* restart it is false until the new worker's loop has exited.
C37_RunningXorFinished ==
    /\ ~(mIsRunning /\ mIsFinished)
    /\ mIsFinished => pc[Worker] = "exited"

\* at least one of the four buffering flags is set
AnyBufferingFlag ==
    \/ StateData.BufferLog \/ StateData.BufferLogLabel
    \/ StateData.BufferFileLog \/ StateData.BufferFileLogLabel

\* C38: after any sequence of SetState calls BufferLogEnabled is the
\* disjunction of the four buffering flags, and a dispatch goes through the
\* buffering branch exactly when one of them is set.
C38_BufferLogEnabledDerived ==
    /\ [](StateData.BufferLogEnabled = AnyBufferingFlag)
    /\ [](pc[1] \in {"buf_lock", "buf_log", "fbuf_lock", "fbuf_log"} => AnyBufferingFlag)
    /\ [][sent'[1] = sent[1] /\ pc[1] # "idle" /\ pc'[1] = "idle" =>
             (AnyBufferingFlag <=> pc[1] = "fbuf_log")]_vars

\* BUFFER_FILE_LOG_LABEL alone was set with SetState and a dispatch is in the
\* buffering branch
C38_Witness ==
    /\ nCalls > 0
    /\ StateData.BufferFileLogLabel
    /\ ~StateData.BufferLog /\ ~StateData.BufferLogLabel /\ ~StateData.BufferFileLog
    /\ pc[1] = "fbuf_log"

\* a text with its braces written as brackets, which Format does not look
\* for, and back
Masked(text) ==
    [k \in 1..Len(text) |->
        IF text[k] = "{" THEN "[" ELSE IF text[k] = "}" THEN "]" ELSE text[k]]
Unmasked(text) ==
    [k \in 1..Len(text) |->
        IF text[k] = "[" THEN "{" ELSE IF text[k] = "]" THEN "}" ELSE text[k]]
MaskedAll(vals) == [i \in 1..Len(vals) |-> Masked(vals[i])]

\* C39: text substituted for an argument is never itself interpreted as a
\* placeholder: each placeholder of the template is replaced by at most one
\* argument and the text inserted for an argument is not altered by a later
\* argument, so the result is the one obtained when the braces of the
\* arguments' texts cannot be read as a placeholder.
C39_InsertedTextInert ==
    fnOut # <<>> =>
        LET inert == Format(Template(fnIn.pieces), MaskedAll(fnIn.vals))
        IN /\ fnOut.ok = inert.ok
           /\ fnOut.str = Unmasked(inert.str)

\* C40: the conversion of a typed placeholder depends only on the characters
\* between "{:" and its closing "}": with any text after the placeholder,
\* Format fails or not as it does with no text after it, and it returns the
\* same rendering of the argument, followed by that text.
C40_TailDoesNotChangeConversion ==
    fnOut # <<>> =>
        LET alone == Format(TypedTemplate([fnIn EXCEPT !.tail = <<>>]), <<fnIn.val>>)
        IN /\ fnOut.ok = alone.ok
           /\ fnOut.ok => fnOut.str = alone.str \o fnIn.tail

====
